---- MODULE Spec2Model ----
(***************************************************************************)
(* TrapDaemon: the Session/Protocol layer (HoneypotCore), the daemon's     *)
(* event wiring (TrapDaemon) and the Attack Detection Engine               *)
(* (AttackDetector), as one state machine.                                 *)
(*                                                                         *)
(* Strings are TLA+ strings; a character is a string of length 1.  Time is *)
(* Date.now() in milliseconds.  A falsy JavaScript value (undefined, null, *)
(* "", 0) of a string field is "", of a number field 0.                    *)
(***************************************************************************)
EXTENDS Integers, Sequences, FiniteSets, TLC

VARIABLES
    now,             \* Date.now()
    trafficBuffer,   \* AttackDetector.trafficBuffer
    ipActivity,      \* AttackDetector.ipActivity
    attackPatterns,  \* AttackDetector.attackPatterns
    engine,          \* AttackDetector.isActive and which of its intervals are set
    emitted,         \* attackDetected events emitted by the last step, in order
    attacks,         \* TrapDaemon.attacks
    targets,         \* TrapDaemon.targets, in insertion order
    logged,          \* the Incidents TrapDaemon has passed to addLog(.., "attack")
    alerted,         \* the Incidents TrapDaemon has passed to sendTelegramAlert
    lastTraffic,     \* argument of the last processTrafficData call made by handleDataHarvest
    connections,     \* HoneypotCore.connections
    sockets,         \* the transports accepted so far, by accept order
    stats,           \* HoneypotCore.stats
    listening,       \* the listeners of HoneypotCore.services accept connections
    crashed,         \* an exception escaped an event handler: the process has exited
    replies,         \* what the last step wrote to a transport, in order
    ports,           \* HoneypotCore.ports
    services,        \* HoneypotCore.services: the port each server listens on, 0 if none
    busy,            \* the ports other processes hold
    setup,           \* how far initialize() has come, and the 'error' events due
    lastOp           \* the handler the last step ran

vars == <<now, trafficBuffer, ipActivity, attackPatterns, engine, emitted, attacks, targets, logged,
          alerted, lastTraffic, connections, sockets, stats, listening, crashed, replies,
          ports, services, busy, setup, lastOp>>

detVars == <<trafficBuffer, ipActivity, attackPatterns, attacks, logged, alerted>>
bindVars == <<ports, services, busy, setup>>
coreVars == <<connections, sockets, stats, listening, crashed, bindVars>>

-----------------------------------------------------------------------------
(* What the environment sends: remote addresses, payloads, log lines.      *)

Scanner == "8.8.8.8"
PublicAddress == "::ffff:8.8.8.8"
PrivateAddress == "10.0.0.5"
PublicSources == {Scanner, "172.32.0.1"}
(* A source that is a JavaScript number is written as its decimal digits:  *)
(* this one is the number 134744072, the address 8.8.8.8 as an integer.    *)
NumericSource == "134744072"
Numbers == {NumericSource}
PrivateSources == {"127.0.0.1", "::1", PrivateAddress, "172.16.0.1", "172.31.255.254",
                   "192.168.1.10"}
SqlPayload == "1' UNION SELECT username,password FROM users--"
SqlBody == "user=admin' OR '1'='1"
FailedPassword == "Failed password for root"
LoginPayload == "login admin"
Hello == "hello"
Payloads == {SqlPayload, FailedPassword, Hello}
LogLines == {"sshd[311]: Failed password for root from 8.8.8.8 port 4022 ssh2",
             "sshd[311]: Failed password for root from 192.168.1.10 port 4022 ssh2",
             "kernel: connection reset"}
TelnetLine == SqlPayload \o "\r\n"
SSHLine == "password hunter2\r\n"
SSHCommand == "uname -a\r\n"
SSHLines == {SSHLine, SSHCommand}
UserLine == "USER alice\r\n"
PwdLine == "PWD\r\n"
CwdLine == "cwd /srv\r\n"
QuitLine == "QUIT\r\n"
FTPLines == {UserLine, PwdLine, CwdLine, QuitLine}
PassLine == "pass hunter2\r\n"
AuthLines == {UserLine, PassLine}
(* payloads of exactly 500 and of 625 characters *)
Block25 == "xxxxxxxxxxxxxxxxxxxxxxxxx"
Block125 == Block25 \o Block25 \o Block25 \o Block25 \o Block25
LimitPayload == Block125 \o Block125 \o Block125 \o Block125
LargePayload == LimitPayload \o Block125
(* two known attack substrings and two suspicious extensions, no rule *)
ThreatPayload == "cmd.exe /c rm -rf a.bat"
ShellPayload == "rm -rf /bin/bash"
AdminUrl == "/admin"
HTTPUrls == {AdminUrl, "/api/login", "/api/robots.txt", "/robots.txt?next=a.php", "/index.php", "/"}
HTTPBodies == {"", SqlBody}
SSHPort == 2222

-----------------------------------------------------------------------------
(* String functions of the JavaScript runtime, computed character by       *)
(* character.                                                              *)

UpperCase == <<"A","B","C","D","E","F","G","H","I","J","K","L","M",
               "N","O","P","Q","R","S","T","U","V","W","X","Y","Z">>
LowerCase == <<"a","b","c","d","e","f","g","h","i","j","k","l","m",
               "n","o","p","q","r","s","t","u","v","w","x","y","z">>

CharAt(s, i) == SubSeq(s, i, i)

Range(seq) == {seq[k] : k \in 1..Len(seq)}

UpperSet == {UpperCase[k] : k \in 1..26}
LowerOf == [c \in UpperSet |-> LowerCase[CHOOSE k \in 1..26 : UpperCase[k] = c]]

LowerChar(c) == IF c \in UpperSet THEN LowerOf[c] ELSE c

RECURSIVE toLowerCaseOf(_)
toLowerCaseOf(s) ==
    IF Len(s) = 0 THEN ""
    ELSE IF Len(s) = 1 THEN LowerChar(s)
    ELSE toLowerCaseOf(SubSeq(s, 1, Len(s) \div 2))
         \o toLowerCaseOf(SubSeq(s, Len(s) \div 2 + 1, Len(s)))

UpperOf == [c \in Range(LowerCase) |-> UpperCase[CHOOSE k \in 1..26 : LowerCase[k] = c]]

UpperChar(c) == IF c \in Range(LowerCase) THEN UpperOf[c] ELSE c

RECURSIVE toUpperCaseOf(_)
toUpperCaseOf(s) ==
    IF Len(s) = 0 THEN ""
    ELSE IF Len(s) = 1 THEN UpperChar(s)
    ELSE toUpperCaseOf(SubSeq(s, 1, Len(s) \div 2))
         \o toUpperCaseOf(SubSeq(s, Len(s) \div 2 + 1, Len(s)))

IsWhiteSpace(c) == c \in {" ", "\t", "\n", "\r"}
IsLineTerminator(c) == c \in {"\n", "\r"}

trimOf(s) ==
    LET keep == {i \in 1..Len(s) : ~IsWhiteSpace(CharAt(s, i))}
    IN  IF keep = {} THEN ""
        ELSE LET first == CHOOSE i \in keep : \A j \in keep : i <= j
                 last  == CHOOSE i \in keep : \A j \in keep : j <= i
             IN  SubSeq(s, first, last)

(* data.toString().replace(/\r\n|\r|\n/g, "") *)
RECURSIVE RemoveLineBreaksOf(_)
RemoveLineBreaksOf(s) ==
    IF Len(s) = 0 THEN ""
    ELSE IF Len(s) = 1 THEN (IF IsLineTerminator(s) THEN "" ELSE s)
    ELSE RemoveLineBreaksOf(SubSeq(s, 1, Len(s) \div 2))
         \o RemoveLineBreaksOf(SubSeq(s, Len(s) \div 2 + 1, Len(s)))

startsWith(s, p) == Len(p) <= Len(s) /\ SubSeq(s, 1, Len(p)) = p

SubAt(s, i, w) == i >= 1 /\ i + Len(w) - 1 <= Len(s) /\ SubSeq(s, i, i + Len(w) - 1) = w

(* the threat signatures of loadThreatSignatures *)
MaliciousIPs == {"192.168.1.666", "10.0.0.666"}
AttackSubstrings == <<"union+select", "../../../etc/passwd", "cmd.exe", "powershell.exe",
                      "/bin/bash", "nc -l", "rm -rf", "format c:">>
SuspiciousExtensions == <<".exe", ".bat", ".scr", ".pif", ".com", ".cmd", ".ps1", ".vbs">>

(* The string functions are applied to the strings the specifications     *)
(* use, and their values on these are computed once.                       *)
Needles == Range(AttackSubstrings) \cup Range(SuspiciousExtensions)
           \cup {"password", "login", "admin", "api", "robots.txt", ".php"}
Raw == Payloads \cup PublicSources \cup PrivateSources \cup LogLines \cup HTTPBodies
       \cup {PublicAddress, PrivateAddress, LoginPayload, TelnetLine, SSHLine, SSHCommand, AdminUrl, NumericSource,
             "unknown", "[object Object]"}
       \cup FTPLines \cup AuthLines \cup {LimitPayload, LargePayload}
       \cup MaliciousIPs \cup {ThreatPayload, ShellPayload} \cup HTTPUrls
       \cup {toUpperCaseOf(trimOf(s)) : s \in FTPLines \cup AuthLines}
       \cup Needles
Unbroken == Raw \cup {RemoveLineBreaksOf(s) : s \in Raw}
Trimmed == Unbroken \cup {trimOf(s) : s \in Unbroken}
Subjects == Trimmed \cup {toLowerCaseOf(s) : s \in Trimmed}

LowerCased == [s \in Subjects |-> toLowerCaseOf(s)]
toLowerCase(s) == LowerCased[s]

UpperCased == [s \in Subjects |-> toUpperCaseOf(s)]
toUpperCase(s) == UpperCased[s]

TrimOf == [s \in Subjects |-> trimOf(s)]
trim(s) == TrimOf[s]

WithoutLineBreaks == [s \in Subjects |-> RemoveLineBreaksOf(s)]
RemoveLineBreaks(s) == WithoutLineBreaks[s]

includesOf(s, w) == \E i \in 1..(Len(s) - Len(w) + 1) : SubAt(s, i, w)

Included == [s \in Subjects |-> [w \in Needles |-> includesOf(s, w)]]
includes(s, w) == Included[s][w]

(* String.prototype.substring(0, n) *)
Prefix(s, n) == SubSeq(s, 1, IF n < Len(s) THEN n ELSE Len(s))

(* a || b for strings *)
OrElse(a, b) == IF a # "" THEN a ELSE b

(* a || b for numbers *)
OrElseNum(a, b) == IF a # 0 THEN a ELSE b

(* RegExp.prototype.test for the patterns of the ruleset.  A pattern is a   *)
(* set of alternatives; an alternative is a chain <<A1, ..., An>> of sets   *)
(* of literals and stands for (a1|a1'|..).*(a2|..).* ... (an|..): "."       *)
(* matches any character but a line terminator.  Literals are lower case   *)
(* and the subject is lower-cased, which is the /i flag.                   *)
NoLineTerminator(s, from, to) ==
    \A k \in from..to : ~IsLineTerminator(CharAt(s, k))

RECURSIVE ChainFrom(_, _, _)
ChainFrom(s, p, chain) ==
    IF chain = <<>> THEN TRUE
    ELSE \E w \in Head(chain) :
            \E j \in p..(Len(s) - Len(w) + 1) :
                /\ SubAt(s, j, w)
                /\ NoLineTerminator(s, p, j - 1)
                /\ ChainFrom(s, j + Len(w), Tail(chain))

ChainTest(s, chain) ==
    \E w \in Head(chain) :
        \E i \in 1..(Len(s) - Len(w) + 1) :
            SubAt(s, i, w) /\ ChainFrom(s, i + Len(w), Tail(chain))

RegExpTestOf(pattern, s) ==
    \E chain \in pattern : ChainTest(toLowerCase(s), chain)

(* safeString for a string input *)
safeString(input) == trim(input)

-----------------------------------------------------------------------------
(* AttackDetector: ruleset and private-range filter                        *)

(* U+0060 cannot be written in a TLA+ string: "\f" stands for it. *)
Backquote == "\f"

Literals(ws) == {<<{w}>> : w \in ws}

DetectionRules == <<
    [name |-> "bruteforce",
     pattern |-> {<<{"failed"}, {"login", "password", "authentication", "auth"}>>},
     threshold |-> 5, timeWindow |-> 300000, severity |-> "high"],
    [name |-> "portscan",
     pattern |-> {<<{"connection"}, {"refused", "reset", "timeout"}>>},
     threshold |-> 10, timeWindow |-> 60000, severity |-> "medium"],
    [name |-> "sqlinjection",
     pattern |-> {<<{"union"}, {"select"}>>, <<{"drop"}, {"table"}>>,
                  <<{"insert"}, {"into"}>>, <<{"update"}, {"set"}>>,
                  <<{"delete"}, {"from"}>>, <<{"'"}, {"or"}, {"'"}>>,
                  <<{"\""}, {"or"}, {"\""}>>, <<{"select"}, {"from"}>>},
     threshold |-> 1, timeWindow |-> 0, severity |-> "high"],
    [name |-> "xss",
     pattern |-> Literals({"<script", "javascript:", "onload=", "onerror=",
                           "onclick=", "onmouseover="}),
     threshold |-> 1, timeWindow |-> 0, severity |-> "medium"],
    [name |-> "directory_traversal",
     pattern |-> Literals({"../", "..\\"}),
     threshold |-> 1, timeWindow |-> 0, severity |-> "high"],
    [name |-> "command_injection",
     pattern |-> {<<{";", "|", "&", "$(", Backquote},
                    {"cat", "ls", "pwd", "whoami", "id", "uname", "nc", "netcat",
                     "wget", "curl", "bash", "sh", "cmd", "powershell"}>>},
     threshold |-> 1, timeWindow |-> 0, severity |-> "critical"],
    [name |-> "malware_download",
     pattern |-> {<<{"wget", "curl", "powershell", "certutil"},
                    {".exe", ".bat", ".scr", ".dll", ".ps1"}>>},
     threshold |-> 1, timeWindow |-> 0, severity |-> "high"] >>

(* /(login|password|auth|ssh|ftp|telnet)/i of detectBruteForcePatterns *)
AuthKeywords == Literals({"login", "password", "auth", "ssh", "ftp", "telnet"})

RegExpTestCaseSensitive(pattern, s) ==
    \E chain \in pattern : ChainTest(s, chain)

Patterns == {DetectionRules[i].pattern : i \in 1..Len(DetectionRules)} \cup {AuthKeywords}
Tested == [pattern \in Patterns |-> [s \in Subjects |-> RegExpTestOf(pattern, s)]]
RegExpTest(pattern, s) == Tested[pattern][s]

RuleNames == {DetectionRules[i].name : i \in 1..Len(DetectionRules)}
RuleNamed(n) == DetectionRules[CHOOSE i \in 1..Len(DetectionRules) : DetectionRules[i].name = n]

LocalhostVariants == {"127.0.0.1", "::1", "localhost", "unknown", "system",
                      "filesystem", "0.0.0.0", "local"}

PrivatePrefixes == {"127.", "::", "192.168.", "10.",
                    "172.16.", "172.17.", "172.18.", "172.19.", "172.20.", "172.21.",
                    "172.22.", "172.23.", "172.24.", "172.25.", "172.26.", "172.27.",
                    "172.28.", "172.29.", "172.30.", "172.31."}

isLocalhostStrictOf(ip) ==
    IF ip = "" THEN TRUE
    ELSE LET ipStr == trim(toLowerCase(ip))
         IN  \/ ipStr \in LocalhostVariants
             \/ \E p \in PrivatePrefixes : startsWith(ipStr, p)

isLocalhostNamesOnly(ip) ==
    IF ip = "" THEN TRUE ELSE trim(toLowerCase(ip)) \in LocalhostVariants

StrictlyLocal == [ip \in Subjects |-> isLocalhostStrictOf(ip)]
isLocalhostStrict(ip) == StrictlyLocal[ip]

(* what stands for the TypeError hash.update(ip) throws when ip is no string *)
Thrown == "TypeError"

(* crypto md5 of the address, first 8 hex digits: a function of ip alone *)
generateTargetId(ip) == IF ip \in Numbers THEN Thrown ELSE "md5:" \o ip

(* extractIPFromLog: the first match of /\b(?:[0-9]{1,3}\.){3}[0-9]{1,3}\b/ *)
IsDigit(c) == c \in {"0", "1", "2", "3", "4", "5", "6", "7", "8", "9"}
IsWordChar(c) == IsDigit(c) \/ c = "_" \/ c \in UpperSet \/ c \in Range(LowerCase)
WordBoundary(s, i) ==
    \* between s[i-1] and s[i]
    LET before == i > 1 /\ IsWordChar(CharAt(s, i - 1))
        after  == i <= Len(s) /\ IsWordChar(CharAt(s, i))
    IN  before # after
DigitsAt(s, i, n) == i + n - 1 <= Len(s) /\ \A k \in i..(i + n - 1) : IsDigit(CharAt(s, k))

RECURSIVE QuadEnd(_, _, _)
(* the ends e of a match of ([0-9]{1,3}\.){g}[0-9]{1,3}\b that starts at i *)
QuadEnd(s, i, g) ==
    IF g = 0
    THEN {i + n - 1 : n \in {m \in 1..3 : DigitsAt(s, i, m) /\ WordBoundary(s, i + m)}}
    ELSE UNION {QuadEnd(s, i + n + 1, g - 1) :
                    n \in {m \in 1..3 : DigitsAt(s, i, m) /\ SubAt(s, i + m, ".")}}

extractIPFromLogOf(logLine) ==
    LET starts == {i \in 1..Len(logLine) : WordBoundary(logLine, i) /\ QuadEnd(logLine, i, 3) # {}}
    IN  IF starts = {} THEN ""
        ELSE LET i == CHOOSE a \in starts : \A b \in starts : a <= b
                 e == CHOOSE a \in QuadEnd(logLine, i, 3) : \A b \in QuadEnd(logLine, i, 3) : b <= a
             IN  SubSeq(logLine, i, e)

ExtractedIP == [logLine \in LogLines |-> extractIPFromLogOf(logLine)]
extractIPFromLog(logLine) == ExtractedIP[logLine]

-----------------------------------------------------------------------------
(* AttackDetector: the per-Observation pipeline.  An Observation `data` is  *)
(* [src_ip, source, payload, dst_port, port]; an Incident is                *)
(* [type, severity, source, targetId].                                      *)

BufferCap == 1000
BufferKeep == 500
AnalysisWindow == 300000

SourceOf(data) == OrElse(data.src_ip, OrElse(data.source, "unknown"))

Incident(type, severity, source, targetId) ==
    [type |-> type, severity |-> severity, source |-> source, targetId |-> targetId]

(* An Incident whose targetId is Thrown was never created: the exception   *)
(* left the function at that point.  Threw: an exception was thrown;       *)
(* Completed: the Incidents created before it.                              *)
Threw(incidents) == \E k \in 1..Len(incidents) : incidents[k].targetId = Thrown

Completed(incidents) ==
    IF Threw(incidents)
    THEN SubSeq(incidents, 1,
                (CHOOSE k \in 1..Len(incidents) :
                    /\ incidents[k].targetId = Thrown
                    /\ \A j \in 1..(k - 1) : incidents[j].targetId # Thrown) - 1)
    ELSE incidents

RECURSIVE SignatureIncidents(_, _, _)
(* the loop over detectionRules.entries(), from rule k on *)
SignatureIncidents(payload, sourceIP, k) ==
    IF k > Len(DetectionRules) THEN <<>>
    ELSE LET rule == DetectionRules[k]
             hit  == payload # "" /\ Len(payload) > 0 /\ RegExpTest(rule.pattern, payload)
         IN  (IF hit
              THEN <<Incident(rule.name, rule.severity, sourceIP, generateTargetId(sourceIP))>>
              ELSE <<>>) \o SignatureIncidents(payload, sourceIP, k + 1)

reportThreat(threatType, data) ==
    LET source == SourceOf(data)
    IN  IF isLocalhostStrict(source) THEN <<>>
        ELSE <<Incident("threat_" \o threatType, "high", source, generateTargetId(source))>>

checkThreatSignaturesEveryMatch(data) ==
    LET sourceIP == OrElse(data.src_ip, data.source)
        payload == safeString(data.payload)
        payloadLower == toLowerCase(payload)
    IN  IF isLocalhostStrict(sourceIP) THEN <<>>
        ELSE (IF sourceIP # "" /\ sourceIP \in MaliciousIPs
              THEN reportThreat("malicious_ip", data) ELSE <<>>)
             \o (IF payload # ""
                 THEN [i \in 1..Cardinality({k \in 1..Len(AttackSubstrings) :
                                                includes(payloadLower, toLowerCase(AttackSubstrings[k]))})
                          |-> reportThreat("attack_pattern", data)[1]]
                 ELSE <<>>)
             \o (IF payload # "" /\ \E k \in 1..Len(SuspiciousExtensions) :
                                        includes(payloadLower, toLowerCase(SuspiciousExtensions[k]))
                 THEN reportThreat("suspicious_file", data) ELSE <<>>)

checkThreatSignatures(data) ==
    LET sourceIP == OrElse(data.src_ip, data.source)
        payload == safeString(data.payload)
        payloadLower == toLowerCase(payload)
    IN  IF isLocalhostStrict(sourceIP) THEN <<>>
        ELSE (IF sourceIP # "" /\ sourceIP \in MaliciousIPs
              THEN reportThreat("malicious_ip", data) ELSE <<>>)
             \o (IF payload # "" /\ \E k \in 1..Len(AttackSubstrings) :
                                        includes(payloadLower, toLowerCase(AttackSubstrings[k]))
                 THEN reportThreat("attack_pattern", data) ELSE <<>>)
             \o (IF payload # "" /\ \E k \in 1..Len(SuspiciousExtensions) :
                                        includes(payloadLower, toLowerCase(SuspiciousExtensions[k]))
                 THEN reportThreat("suspicious_file", data) ELSE <<>>)

(* the Incidents analyzeImmediateThreats pushes on attackPatterns and      *)
(* emits; its try block holds the loop and the call of                     *)
(* checkThreatSignatures, and its catch logs the exception                  *)
analyzeImmediateThreats(data) ==
    LET payload == safeString(data.payload)
        sourceIP == SourceOf(data)
    IN  IF isLocalhostStrict(sourceIP) THEN <<>>
        ELSE Completed(SignatureIncidents(payload, sourceIP, 1)
                       \o checkThreatSignatures(data))

processTrafficDataKeepingAll(buffer, data, t) ==
    IF data.payload = "" THEN [buffer |-> buffer, incidents |-> <<>>]
    ELSE IF isLocalhostStrict(SourceOf(data)) THEN [buffer |-> buffer, incidents |-> <<>>]
    ELSE [buffer |-> Append(buffer, [src_ip |-> data.src_ip, source |-> data.source,
                                     payload |-> data.payload, dst_port |-> data.dst_port,
                                     port |-> data.port, timestamp |-> t]),
          incidents |-> analyzeImmediateThreats(data)]

processTrafficDataRefusingWhenFull(buffer, data, t) ==
    IF data.payload = "" THEN [buffer |-> buffer, incidents |-> <<>>]
    ELSE IF isLocalhostStrict(SourceOf(data)) THEN [buffer |-> buffer, incidents |-> <<>>]
    ELSE IF Len(buffer) >= BufferCap THEN [buffer |-> buffer, incidents |-> <<>>]
    ELSE [buffer |-> Append(buffer, [src_ip |-> data.src_ip, source |-> data.source,
                                     payload |-> data.payload, dst_port |-> data.dst_port,
                                     port |-> data.port, timestamp |-> t]),
          incidents |-> analyzeImmediateThreats(data)]

(* processTrafficData: [buffer, incidents] after the call *)
processTrafficData(buffer, data, t) ==
    IF data.payload = "" THEN [buffer |-> buffer, incidents |-> <<>>]
    ELSE IF isLocalhostStrict(SourceOf(data)) THEN [buffer |-> buffer, incidents |-> <<>>]
    ELSE LET pushed == Append(buffer, [src_ip |-> data.src_ip, source |-> data.source,
                                       payload |-> data.payload, dst_port |-> data.dst_port,
                                       port |-> data.port, timestamp |-> t])
             kept == IF Len(pushed) > BufferCap
                     THEN SubSeq(pushed, Len(pushed) - BufferKeep + 1, Len(pushed))
                     ELSE pushed
         IN  [buffer |-> kept, incidents |-> analyzeImmediateThreats(data)]

-----------------------------------------------------------------------------
(* AttackDetector: windowed aggregation (fast cadence)                      *)

PortScanThreshold == 15
BruteForceThreshold == 10
ExfilMinSize == 500
ExfilThreshold == 50000
VolumeThreshold == 100

ItemIP(item) == OrElse(item.src_ip, item.source)
ItemPort(item) == OrElseNum(item.dst_port, item.port)

RECURSIVE SortedSeq(_)
SortedSeq(S) ==
    IF S = {} THEN <<>>
    ELSE LET m == CHOOSE x \in S : \A y \in S : x <= y
         IN  <<m>> \o SortedSeq(S \ {m})

(* the keys of a Map filled by traffic.forEach, in insertion order *)
KeysInOrder(traffic, counted(_)) ==
    LET firsts == SortedSeq({j \in 1..Len(traffic) :
                      /\ counted(traffic[j])
                      /\ \A k \in 1..(j - 1) :
                            ~(counted(traffic[k]) /\ ItemIP(traffic[k]) = ItemIP(traffic[j]))})
    IN  [i \in 1..Len(firsts) |-> ItemIP(traffic[firsts[i]])]

RECURSIVE SumSeq(_)
SumSeq(nums) ==
    IF Len(nums) = 0 THEN 0
    ELSE IF Len(nums) = 1 THEN nums[1]
    ELSE SumSeq(SubSeq(nums, 1, Len(nums) \div 2))
         + SumSeq(SubSeq(nums, Len(nums) \div 2 + 1, Len(nums)))

SumOver(seq, f(_)) == SumSeq([k \in 1..Len(seq) |-> f(seq[k])])

RECURSIVE Flatten(_)
Flatten(seqs) == IF seqs = <<>> THEN <<>> ELSE Head(seqs) \o Flatten(Tail(seqs))

(* Map.forEach(report): the Incidents reported for the keys, in order *)
MapIncidents(keys, report(_)) == Flatten([k \in 1..Len(keys) |-> report(keys[k])])

PortsOf(traffic, ip) ==
    {ItemPort(traffic[k]) : k \in {j \in 1..Len(traffic) :
                                      ItemIP(traffic[j]) = ip /\ ItemPort(traffic[j]) # 0}}

IsPortScanNotYetReported(portSet) ==
    /\ Cardinality(portSet) > PortScanThreshold
    /\ \A i \in 1..Len(attacks) : attacks[i].type # "port_scanning"

IsPortScanFromThreshold(portSet) == Cardinality(portSet) >= PortScanThreshold

(* ports.size > 15 *)
IsPortScan(portSet) == Cardinality(portSet) > PortScanThreshold

detectPortScanning(traffic) ==
    LET counted(item) == ItemIP(item) # "" /\ ~isLocalhostStrict(ItemIP(item))
        report(ip) ==
            IF ~isLocalhostStrict(ip) /\ IsPortScan(PortsOf(traffic, ip))
            THEN <<Incident("port_scanning", "medium", ip, generateTargetId(ip))>>
            ELSE <<>>
    IN  MapIncidents(KeysInOrder(traffic, counted), report)

IsAuthAttempt(item) ==
    /\ ItemIP(item) # ""
    /\ safeString(item.payload) # ""
    /\ ~isLocalhostStrict(ItemIP(item))
    /\ RegExpTest(AuthKeywords, safeString(item.payload))

IsBruteForceFromThreshold(attempts) == attempts >= BruteForceThreshold

(* attempts > 10 *)
IsBruteForce(attempts) == attempts > BruteForceThreshold

detectBruteForcePatterns(traffic) ==
    LET count(ip) == SumOver(traffic, LAMBDA item :
                        IF ItemIP(item) = ip /\ IsAuthAttempt(item) THEN 1 ELSE 0)
        report(ip) ==
            IF ~isLocalhostStrict(ip) /\ IsBruteForce(count(ip))
            THEN <<Incident("brute_force", "high", ip, generateTargetId(ip))>>
            ELSE <<>>
    IN  MapIncidents(KeysInOrder(traffic, IsAuthAttempt), report)

IsBulkFromMinSize(item) ==
    /\ ItemIP(item) # ""
    /\ safeString(item.payload) # ""
    /\ ~isLocalhostStrict(ItemIP(item))
    /\ Len(safeString(item.payload)) >= ExfilMinSize

IsBulk(item) ==
    /\ ItemIP(item) # ""
    /\ safeString(item.payload) # ""
    /\ ~isLocalhostStrict(ItemIP(item))
    /\ Len(safeString(item.payload)) > ExfilMinSize

detectDataExfiltration(traffic) ==
    LET total(ip) == SumOver(traffic, LAMBDA item :
                        IF ItemIP(item) = ip /\ IsBulk(item)
                        THEN Len(safeString(item.payload)) ELSE 0)
        report(ip) ==
            IF ~isLocalhostStrict(ip) /\ total(ip) > ExfilThreshold
            THEN <<Incident("data_exfiltration", "high", ip, generateTargetId(ip))>>
            ELSE <<>>
    IN  MapIncidents(KeysInOrder(traffic, IsBulk), report)

detectSuspiciousVolume(traffic) ==
    LET counted(item) == ItemIP(item) # "" /\ ~isLocalhostStrict(ItemIP(item))
        count(ip) == SumOver(traffic, LAMBDA item :
                        IF ItemIP(item) = ip /\ counted(item) THEN 1 ELSE 0)
        report(ip) ==
            IF ~isLocalhostStrict(ip) /\ count(ip) > VolumeThreshold
            THEN <<Incident("suspicious_volume", "medium", ip, generateTargetId(ip))>>
            ELSE <<>>
    IN  MapIncidents(KeysInOrder(traffic, counted), report)

(* the filter of analyzeTrafficBuffer *)
RecentTrafficKeepingAged(buffer, t) ==
    SelectSeq(buffer, LAMBDA item :
        t - item.timestamp <= AnalysisWindow /\ ~isLocalhostStrict(ItemIP(item)))

RecentTraffic(buffer, t) ==
    SelectSeq(buffer, LAMBDA item :
        t - item.timestamp < AnalysisWindow /\ ~isLocalhostStrict(ItemIP(item)))

(* analyzeTrafficBuffer: [buffer, incidents, threw] after the cycle; it    *)
(* has no try block, so an exception leaves the interval callback           *)
analyzeTrafficBuffer(buffer, t) ==
    LET recentTraffic == RecentTraffic(buffer, t)
        all == detectPortScanning(recentTraffic)
               \o detectBruteForcePatterns(recentTraffic)
               \o detectDataExfiltration(recentTraffic)
               \o detectSuspiciousVolume(recentTraffic)
    IN  [buffer |-> recentTraffic, incidents |-> Completed(all), threw |-> Threw(all)]

-----------------------------------------------------------------------------
(* AttackDetector: behavioral analysis (slow cadence).  ipActivity is the   *)
(* Map in insertion order: a sequence of [ip, activities]; an activity is   *)
(* [port, timestamp].                                                       *)

ActivityCap == 100
ActivityKeep == 50
BehaviorVolumeThreshold == 50
BehaviorPortThreshold == 10

IndexOfIP(activity, ip) ==
    IF \E k \in 1..Len(activity) : activity[k].ip = ip
    THEN CHOOSE k \in 1..Len(activity) : activity[k].ip = ip
    ELSE 0

recordIPActivityUnfiltered(activity, ip, act, t) ==
    IF ip = "" THEN activity
    ELSE LET known == IF IndexOfIP(activity, ip) = 0
                      THEN Append(activity, [ip |-> ip, activities |-> <<>>])
                      ELSE activity
             k == IndexOfIP(known, ip)
             pushed == Append(known[k].activities, [port |-> act.port, timestamp |-> t])
         IN  [known EXCEPT ![k].activities = pushed]

recordIPActivityKeepingOldest(activity, ip, act, t) ==
    IF ip = "" \/ isLocalhostStrict(ip) THEN activity
    ELSE LET known == IF IndexOfIP(activity, ip) = 0
                      THEN Append(activity, [ip |-> ip, activities |-> <<>>])
                      ELSE activity
             k == IndexOfIP(known, ip)
             pushed == Append(known[k].activities, [port |-> act.port, timestamp |-> t])
             kept == IF Len(pushed) > ActivityCap
                     THEN SubSeq(pushed, 1, ActivityKeep)
                     ELSE pushed
         IN  [known EXCEPT ![k].activities = kept]

recordIPActivity(activity, ip, act, t) ==
    IF ip = "" \/ isLocalhostStrict(ip) THEN activity
    ELSE LET known == IF IndexOfIP(activity, ip) = 0
                      THEN Append(activity, [ip |-> ip, activities |-> <<>>])
                      ELSE activity
             k == IndexOfIP(known, ip)
             pushed == Append(known[k].activities, [port |-> act.port, timestamp |-> t])
             kept == IF Len(pushed) > ActivityCap
                     THEN SubSeq(pushed, Len(pushed) - ActivityKeep + 1, Len(pushed))
                     ELSE pushed
         IN  [known EXCEPT ![k].activities = kept]

reportBehavioralAnomaly(ip, type) ==
    IF isLocalhostStrict(ip) THEN <<>>
    ELSE <<Incident("behavioral_" \o type, "medium", ip, generateTargetId(ip))>>

analyzeIPBehaviorFromThreshold(ip, activities) ==
    IF isLocalhostStrict(ip) THEN <<>>
    ELSE LET uniquePorts == {activities[k].port : k \in 1..Len(activities)} \ {0}
         IN  (IF Len(activities) >= BehaviorVolumeThreshold
              THEN reportBehavioralAnomaly(ip, "high_volume") ELSE <<>>)
             \o (IF Cardinality(uniquePorts) >= BehaviorPortThreshold
                 THEN reportBehavioralAnomaly(ip, "port_scanning") ELSE <<>>)

analyzeIPBehavior(ip, activities) ==
    IF isLocalhostStrict(ip) THEN <<>>
    ELSE LET uniquePorts == {activities[k].port : k \in 1..Len(activities)} \ {0}
         IN  (IF Len(activities) > BehaviorVolumeThreshold
              THEN reportBehavioralAnomaly(ip, "high_volume") ELSE <<>>)
             \o (IF Cardinality(uniquePorts) > BehaviorPortThreshold
                 THEN reportBehavioralAnomaly(ip, "port_scanning") ELSE <<>>)

RecentActivities(activities, t) ==
    SelectSeq(activities, LAMBDA a : t - a.timestamp < AnalysisWindow)

RECURSIVE BehaviorIncidents(_, _, _)
BehaviorIncidents(activity, t, k) ==
    IF k > Len(activity) THEN <<>>
    ELSE (IF isLocalhostStrict(activity[k].ip) THEN <<>>
          ELSE analyzeIPBehavior(activity[k].ip, RecentActivities(activity[k].activities, t)))
         \o BehaviorIncidents(activity, t, k + 1)

(* analyzeBehaviorPatterns: [activity, incidents, threw] after the cycle;  *)
(* an exception leaves the loop, and the interval callback, at entry `last` *)
analyzeBehaviorPatterns(activity, t) ==
    LET one(k) == IF isLocalhostStrict(activity[k].ip) THEN <<>>
                  ELSE analyzeIPBehavior(activity[k].ip,
                                         RecentActivities(activity[k].activities, t))
        failing == {k \in 1..Len(activity) : Threw(one(k))}
        last == IF failing = {} THEN Len(activity)
                ELSE CHOOSE k \in failing : \A j \in failing : k <= j
        all == BehaviorIncidents(activity, t, 1)
    IN  [activity |-> [k \in 1..Len(activity) |->
                          IF k > last \/ isLocalhostStrict(activity[k].ip) THEN activity[k]
                          ELSE [activity[k] EXCEPT !.activities = RecentActivities(@, t)]],
         incidents |-> Completed(all),
         threw |-> Threw(all)]

(* analyzeLogLine: the Incidents pushed on attackPatterns and emitted *)
RECURSIVE LogIncidents(_, _, _)
LogIncidents(line, ip, k) ==
    IF k > Len(DetectionRules) THEN <<>>
    ELSE LET rule == DetectionRules[k]
         IN  (IF RegExpTest(rule.pattern, line)
              THEN <<Incident("log_" \o rule.name, rule.severity, ip, "system")>>
              ELSE <<>>) \o LogIncidents(line, ip, k + 1)

analyzeLogLine(line) ==
    LET ip == OrElse(extractIPFromLog(line), "unknown")
    IN  IF isLocalhostStrict(ip) THEN <<>> ELSE LogIncidents(line, ip, 1)

-----------------------------------------------------------------------------
(* TrapDaemon: the wiring of setupEventHandlers.  A dataHarvested event is  *)
(* [type, connectionId, data, payload, source, ip]; the events of          *)
(* HoneypotCore carry neither source nor ip.                                *)

HarvestEvent(type, connectionId, data, payload) ==
    [type |-> type, connectionId |-> connectionId, data |-> data, payload |-> payload,
     source |-> "", ip |-> ""]

(* String(object) of a plain object, as safeString computes it *)
ObjectString == "[object Object]"

(* handleDataHarvest: the argument it passes to processTrafficData *)
handleDataHarvest(ev) ==
    [src_ip |-> OrElse(ev.source, OrElse(ev.ip, "unknown")),
     source |-> "",
     payload |-> safeString(OrElse(ev.data, OrElse(ev.payload, ""))),
     dst_port |-> 0,
     port |-> 0]

handleAttackDetectionTwice(daemon, incidents) ==
    [attacks |-> daemon.attacks \o incidents \o incidents,
     logged  |-> daemon.logged \o incidents \o incidents,
     alerted |-> daemon.alerted \o incidents \o incidents]

(* handleAttackDetection, run by the one attackDetected subscriber for each *)
(* of the Incidents in turn: attacks.push, addLog, sendTelegramAlert       *)
handleAttackDetection(daemon, incidents) ==
    [attacks |-> daemon.attacks \o incidents,
     logged  |-> daemon.logged \o incidents,
     alerted |-> daemon.alerted \o incidents]

(* Keys of TrapDaemon.targets.  A connection id is 16 hex digits           *)
(* (HoneypotCore.generateConnectionId), TrapDaemon.generateTargetId gives  *)
(* the first 8 characters of the base64 text of the address, which encode  *)
(* its first 6 characters: a key is one or the other.                      *)
ConnectionKey(id) == [hex |-> id, base64 |-> ""]
daemonTargetId(ip) == [hex |-> 0, base64 |-> Prefix(ip, 6)]

IndexOfTarget(tracked, targetId) ==
    IF \E k \in 1..Len(tracked) : tracked[k].id = targetId
    THEN CHOOSE k \in 1..Len(tracked) : tracked[k].id = targetId
    ELSE 0

(* createTargetInfo: the target a 'newConnection' event carries *)
createTargetInfo(ip, connectionId, service) ==
    [id |-> ConnectionKey(connectionId), ip |-> ip, service |-> service]

(* TrapDaemon.handleNewTarget *)
handleNewTarget(tracked, target, t) ==
    LET targetId == IF target.id # ConnectionKey(0) THEN target.id ELSE daemonTargetId(target.ip)
        k == IndexOfTarget(tracked, targetId)
    IN  IF k = 0
        THEN Append(tracked, [id |-> targetId, ip |-> target.ip, service |-> target.service,
                              firstSeen |-> t, lastSeen |-> t, connections |-> 1, attacks |-> 0])
        ELSE [tracked EXCEPT ![k].connections = @ + 1, ![k].lastSeen = t]

RECURSIVE updateTargets(_, _, _)
(* handleAttackDetection, "Update target information", for each Incident *)
updateTargets(tracked, incidents, t) ==
    IF incidents = <<>> THEN tracked
    ELSE LET k == IndexOfTarget(tracked, daemonTargetId(Head(incidents).source))
         IN  updateTargets(IF k = 0 THEN tracked
                           ELSE [tracked EXCEPT ![k].attacks = @ + 1, ![k].lastSeen = t],
                           Tail(incidents), t)

(* emit("attackDetected", ..) for each Incident, in order *)
Deliver(incidents) ==
    \E daemon \in {handleAttackDetection(
                       [attacks |-> attacks, logged |-> logged, alerted |-> alerted],
                       incidents)} :
        /\ emitted' = incidents
        /\ attacks' = daemon.attacks
        /\ targets' = updateTargets(targets, incidents, now)
        /\ logged' = daemon.logged
        /\ alerted' = daemon.alerted

RECURSIVE FeedAll(_, _, _)
(* processTrafficData on each Observation in turn: [buffer, incidents] *)
FeedAll(buffer, traffic, t) ==
    IF traffic = <<>> THEN [buffer |-> buffer, incidents |-> <<>>]
    ELSE LET one  == processTrafficData(buffer, Head(traffic), t)
             rest == FeedAll(one.buffer, Tail(traffic), t)
         IN  [buffer |-> rest.buffer, incidents |-> one.incidents \o rest.incidents]

(* the detector and the daemon after the dataHarvested events `events` *)
Harvest(events) ==
    \E traffic \in {[k \in 1..Len(events) |-> handleDataHarvest(events[k])]} :
        \E fed \in {FeedAll(trafficBuffer, traffic, now)} :
            /\ lastTraffic' = traffic
            /\ trafficBuffer' = fed.buffer
            /\ attackPatterns' = attackPatterns \o fed.incidents
            /\ Deliver(fed.incidents)
            /\ UNCHANGED <<ipActivity, engine>>

Quiet ==
    /\ lastTraffic' = <<>>
    /\ emitted' = <<>>
    /\ UNCHANGED <<trafficBuffer, ipActivity, attackPatterns, engine, attacks, logged, alerted>>

NoHarvest == Quiet /\ UNCHANGED targets

-----------------------------------------------------------------------------
(* HoneypotCore: sessions.  A transport is                                  *)
(* [service, remoteAddress, connId, state, timer, acceptedAt, url]:        *)
(* state is "open", "destroyed" (socket.destroy() called, 'close' not yet   *)
(* emitted), "errored" ('error' emitted, 'close' not yet), "closed"        *)
(* ('close' emitted) or, of an HTTP request, "responded"; connId is the    *)
(* connectionId its handlers closed over.  An entry of connections is      *)
(* [service, socket, ip, startTime, attempts, authenticated, state,        *)
(*  username]: socket is the index of the entry's transport, 0 if the      *)
(* entry holds none.                                                        *)

StaleCeiling == 1800000
SSHTimeout == 300000
TelnetTimeout == 600000
SSHMaxAttempts == 3

ProtocolTimeout(service) == IF service = "ssh" THEN SSHTimeout ELSE TelnetTimeout

(* extractClientInfo: remoteAddress?.replace(/^::ffff:/, "") || "unknown" *)
ClientIP(remoteAddress) ==
    OrElse(IF startsWith(remoteAddress, "::ffff:")
           THEN SubSeq(remoteAddress, 8, Len(remoteAddress))
           ELSE remoteAddress,
           "unknown")

Has(id) == id \in DOMAIN connections

Remove(conns, ids) == [i \in DOMAIN conns \ ids |-> conns[i]]

(* socket.destroy() on the transports ks *)
Destroy(socks, ks) ==
    [k \in 1..Len(socks) |->
        IF k \in ks /\ socks[k].state = "open"
        THEN [socks[k] EXCEPT !.state = "destroyed"] ELSE socks[k]]

Write(k, texts) == [i \in 1..Len(texts) |-> [socket |-> k, text |-> texts[i]]]

(* handleConnectionClose: [connections, stats] after the call *)
handleConnectionClose(conns, st, id) ==
    IF id \in DOMAIN conns
    THEN [connections |-> Remove(conns, {id}),
          stats |-> [st EXCEPT !.activeConnections =
                        IF st.activeConnections - 1 > 0 THEN st.activeConnections - 1 ELSE 0]]
    ELSE [connections |-> conns, stats |-> st]

(* crypto.randomBytes(8): any value, whatever the table holds *)
MaxIds == 2
ConnectionIds == 1..MaxIds
MaxSockets == 2
MaxTicks == 2
MaxAttempts == 4

Entry(service, k, ip, t) ==
    [service |-> service, socket |-> k, ip |-> ip, startTime |-> t, attempts |-> 0,
     authenticated |-> FALSE, state |-> IF service = "telnet" THEN "login" ELSE "",
     username |-> "", currentPath |-> IF service = "ftp" THEN "/" ELSE "undefined"]

Transport(service, remoteAddress, id, t, url) ==
    [service |-> service, remoteAddress |-> remoteAddress, connId |-> id, state |-> "open",
     timer |-> service # "http", acceptedAt |-> t, url |-> url, sent |-> <<>>]

Set(conns, id, entry) == [i \in DOMAIN conns \cup {id} |-> IF i = id THEN entry ELSE conns[i]]

Banner(service, ip) ==
    IF service = "ssh" THEN <<"SSH-2.0-OpenSSH_8.9p1 Ubuntu-3ubuntu0.1\r\n">>
    ELSE IF service = "ftp" THEN <<"220 Welcome to Ubuntu FTP Server (vsFTPd 3.0.3)\r\n">>
    ELSE <<"Ubuntu 22.04.3 LTS\r\n", ip \o " login: ">>

SocketServices == {"ssh", "telnet", "ftp"}
LoginServices == {"ssh", "telnet"}

(* the connection callback of createSSHHoneypot / createTelnetHoneypot *)
Accept(service, remoteAddress, id) ==
    /\ ~crashed /\ listening
    /\ Len(sockets) < MaxSockets
    /\ LET k == Len(sockets) + 1
           ip == ClientIP(remoteAddress)
       IN  /\ sockets' = Append(sockets, Transport(service, remoteAddress, id, now, ""))
           /\ stats' = [stats EXCEPT !.totalConnections = @ + 1, !.activeConnections = @ + 1]
           /\ connections' = Set(connections, id, Entry(service, k, ip, now))
           /\ replies' = Write(k, Banner(service, ip))
           /\ targets' = handleNewTarget(targets, createTargetInfo(ip, id, service), now)
           /\ lastOp' = "accept"
    /\ Quiet
    /\ UNCHANGED <<now, listening, crashed, bindVars>>

(* the request callback of createHTTPHoneypot, up to the 'end' of the body *)
HttpRequest(remoteAddress, id, url) ==
    /\ ~crashed /\ listening
    /\ Len(sockets) < MaxSockets
    /\ LET k == Len(sockets) + 1
           ip == ClientIP(remoteAddress)
       IN  /\ sockets' = Append(sockets, Transport("http", remoteAddress, id, now, url))
           /\ stats' = [stats EXCEPT !.totalConnections = @ + 1]
           /\ connections' = Set(connections, id, Entry("http", 0, ip, now))
           /\ replies' = <<>>
           /\ targets' = handleNewTarget(targets, createTargetInfo(ip, id, "http"), now)
           /\ lastOp' = "httpRequest"
    /\ Quiet
    /\ UNCHANGED <<now, listening, crashed, bindVars>>

HTTPContentApiFirst(url) ==
    IF includes(url, "api") THEN "401 json"
    ELSE IF includes(url, "admin") \/ includes(url, "login") THEN "login page"
    ELSE IF includes(url, "robots.txt") THEN "robots.txt"
    ELSE IF includes(url, ".php") THEN "php error"
    ELSE "corporate site"

(* serveHTTPContent: the page chosen for the URL *)
HTTPContent(url) ==
    IF includes(url, "admin") \/ includes(url, "login") THEN "login page"
    ELSE IF includes(url, "api") THEN "401 json"
    ELSE IF includes(url, "robots.txt") THEN "robots.txt"
    ELSE IF includes(url, ".php") THEN "php error"
    ELSE "corporate site"

(* req.on("end"): the body Observation, then serveHTTPContent *)
HttpEnd(k, body) ==
    /\ ~crashed
    /\ k \in 1..Len(sockets)
    /\ sockets[k].service = "http" /\ sockets[k].state = "open"
    /\ LET id == sockets[k].connId
           url == sockets[k].url
           method == IF body = "" THEN "GET" ELSE "POST"
           post == HarvestEvent("http-post-data", id, body,
                                "HTTP " \o method \o " " \o url \o ": " \o Prefix(body, 200))
           request == HarvestEvent("http-request", id, ObjectString,
                                   "HTTP " \o method \o " " \o url \o " {}")
       IN  /\ Harvest((IF body # "" THEN <<post>> ELSE <<>>) \o <<request>>)
           /\ replies' = Write(k, <<HTTPContent(url)>>)
           /\ sockets' = [sockets EXCEPT ![k].state = "responded"]
           /\ lastOp' = "httpEnd"
    /\ UNCHANGED <<now, connections, stats, listening, crashed, bindVars>>

(* handleSSHData, run by the 'data' event of transport k *)
SSHData(k, data) ==
    /\ ~crashed
    /\ k \in 1..Len(sockets)
    /\ sockets[k].service = "ssh" /\ sockets[k].state = "open"
    /\ Has(sockets[k].connId) => connections[sockets[k].connId].attempts < MaxAttempts
    /\ LET id == sockets[k].connId
       IN  IF ~Has(id)
           THEN /\ NoHarvest
                /\ replies' = <<>>
                /\ UNCHANGED <<connections, sockets, crashed>>
           ELSE \E connection \in {connections[id]}, input \in {safeString(trim(data))} :
                \E auth \in {includes(input, "password") \/ includes(input, "login")} :
                \E attempts \in {IF auth THEN connection.attempts + 1
                                  ELSE connection.attempts} :
                \E tooMany \in {auth /\ attempts > SSHMaxAttempts} :
                    IF connection.service = "http"
                    THEN \* the entry holds no commands array: commands.push throws
                         /\ NoHarvest
                         /\ crashed' = TRUE
                         /\ replies' = <<>>
                         /\ UNCHANGED <<connections, sockets>>
                    ELSE
                    /\ Harvest(<<HarvestEvent("ssh-command", id, input, input)>>)
                    /\ connections' = [connections EXCEPT ![id].attempts = attempts]
                    /\ UNCHANGED crashed
                    /\ replies' = Write(connection.socket,
                           IF auth
                           THEN <<"Permission denied (publickey,password).\r\n">>
                                \o (IF tooMany
                                    THEN <<"Too many authentication failures\r\n">>
                                    ELSE <<>>)
                           ELSE IF startsWith(input, "SSH-")
                           THEN <<"SSH-2.0-OpenSSH_8.9p1 Ubuntu-3ubuntu0.1\r\n">>
                           ELSE <<"$ ">>)
                    /\ sockets' = IF tooMany THEN Destroy(sockets, {connection.socket})
                                  ELSE sockets
    /\ lastOp' = "sshData"
    /\ UNCHANGED <<now, stats, listening, bindVars>>

telnetSwitchAccepting(connection, input) ==
    IF connection.state = "login"
    THEN [writes |-> <<"Password: ">>,
          connection |-> [connection EXCEPT !.username = input, !.state = "password"]]
    ELSE [writes |-> <<"$ ">>,
          connection |-> [connection EXCEPT !.state = "shell", !.authenticated = TRUE]]

(* the switch on connection.state of handleTelnetData: what it writes and *)
(* the entry it leaves                                                      *)
telnetSwitch(connection, input) ==
    IF connection.state = "login"
    THEN [writes |-> <<"Password: ">>,
          connection |-> [connection EXCEPT !.username = input, !.state = "password"]]
    ELSE IF connection.state = "password"
    THEN [writes |-> <<"\r\nLogin incorrect\r\n", connection.ip \o " login: ">>,
          connection |-> [connection EXCEPT !.state = "login", !.username = ""]]
    ELSE [writes |-> <<"$ ">>, connection |-> connection]

(* handleTelnetData, run by the 'data' event of transport k.  An entry     *)
(* that holds no socket makes connection.socket.write throw.                *)
TelnetData(k, data) ==
    /\ ~crashed
    /\ k \in 1..Len(sockets)
    /\ sockets[k].service = "telnet" /\ sockets[k].state = "open"
    /\ \E id \in {sockets[k].connId} :
           IF ~Has(id)
           THEN /\ NoHarvest
                /\ replies' = <<>>
                /\ UNCHANGED <<connections, crashed>>
           ELSE \E connection \in {connections[id]},
                   input \in {trim(safeString(RemoveLineBreaks(data)))} :
                \E done \in {telnetSwitch(connection, input)} :
                    /\ Harvest(<<HarvestEvent("telnet-input", id, input, input)>>)
                    /\ crashed' = (connection.socket = 0)
                    /\ replies' = IF connection.socket = 0 THEN <<>>
                                  ELSE Write(connection.socket, done.writes)
                    /\ connections' =
                         IF connection.socket = 0 /\ connection.state # "login"
                         THEN connections
                         ELSE [connections EXCEPT ![id] = done.connection]
    /\ lastOp' = "telnetData"
    /\ UNCHANGED <<now, sockets, stats, listening, bindVars>>

MaxCommands == 3

(* command.split(" "): parts[0], and parts.slice(1).join(" ") *)
FirstSpace(command) ==
    IF \E i \in 1..Len(command) : CharAt(command, i) = " "
    THEN CHOOSE i \in 1..Len(command) :
             /\ CharAt(command, i) = " "
             /\ \A j \in 1..(i - 1) : CharAt(command, j) # " "
    ELSE Len(command) + 1

Cmd(command) == SubSeq(command, 1, FirstSpace(command) - 1)
Arg(command) == SubSeq(command, FirstSpace(command) + 1, Len(command))

(* the switch on cmd of handleFTPData: what it writes, the entry it leaves *)
(* and whether it destroys the transport                                    *)
ftpSwitch(connection, cmd, arg) ==
    IF cmd = "USER"
    THEN [writes |-> <<"331 Username ok, need password.\r\n">>,
          connection |-> [connection EXCEPT !.username = arg], destroy |-> FALSE]
    ELSE IF cmd = "PASS"
    THEN [writes |-> <<"530 Login incorrect.\r\n">>, connection |-> connection, destroy |-> FALSE]
    ELSE IF cmd = "SYST"
    THEN [writes |-> <<"215 UNIX Type: L8\r\n">>, connection |-> connection, destroy |-> FALSE]
    ELSE IF cmd = "PWD"
    THEN [writes |-> <<"257 \"" \o connection.currentPath \o "\" is current directory.\r\n">>,
          connection |-> connection, destroy |-> FALSE]
    ELSE IF cmd = "LIST"
    THEN [writes |-> <<"150 Here comes the directory listing.\r\n",
                       "drwxr-xr-x    2 ftp      ftp          4096 Jan 01 12:00 documents\r\n",
                       "drwxr-xr-x    2 ftp      ftp          4096 Jan 01 12:00 downloads\r\n",
                       "-rw-r--r--    1 ftp      ftp           123 Jan 01 12:00 readme.txt\r\n",
                       "226 Directory send OK.\r\n">>,
          connection |-> connection, destroy |-> FALSE]
    ELSE IF cmd = "CWD"
    THEN [writes |-> <<"250 Directory successfully changed.\r\n">>,
          connection |-> [connection EXCEPT !.currentPath = OrElse(arg, "/")],
          destroy |-> FALSE]
    ELSE IF cmd = "RETR"
    THEN [writes |-> <<"550 File not found.\r\n">>, connection |-> connection, destroy |-> FALSE]
    ELSE IF cmd = "QUIT"
    THEN [writes |-> <<"221 Goodbye.\r\n">>, connection |-> connection, destroy |-> TRUE]
    ELSE [writes |-> <<"500 Unknown command.\r\n">>, connection |-> connection,
          destroy |-> FALSE]

(* handleFTPData, run by the 'data' event of transport k.  The entry of an *)
(* HTTP request holds no commands array: commands.push throws.             *)
FTPData(k, data) ==
    /\ ~crashed
    /\ k \in 1..Len(sockets)
    /\ sockets[k].service = "ftp" /\ sockets[k].state = "open"
    /\ Len(sockets[k].sent) < MaxCommands
    /\ \E id \in {sockets[k].connId}, heard \in {[sockets EXCEPT ![k].sent = Append(@, data)]} :
           IF ~Has(id)
           THEN /\ NoHarvest
                /\ replies' = <<>>
                /\ sockets' = heard
                /\ UNCHANGED <<connections, crashed>>
           ELSE \E connection \in {connections[id]},
                   command \in {toUpperCase(safeString(trim(data)))} :
                \E done \in {ftpSwitch(connection, Cmd(command), Arg(command))} :
                    IF connection.service = "http"
                    THEN /\ NoHarvest
                         /\ crashed' = TRUE
                         /\ replies' = <<>>
                         /\ sockets' = heard
                         /\ UNCHANGED connections
                    ELSE /\ Harvest(<<HarvestEvent("ftp-command", id, command, command)>>)
                         /\ connections' = [connections EXCEPT ![id] = done.connection]
                         /\ replies' = Write(connection.socket, done.writes)
                         /\ sockets' = IF done.destroy
                                        THEN Destroy(heard, {connection.socket}) ELSE heard
                         /\ UNCHANGED crashed
    /\ lastOp' = "ftpData"
    /\ UNCHANGED <<now, stats, listening, bindVars>>

IsSocket(k) == k \in 1..Len(sockets) /\ sockets[k].service \in SocketServices

(* socket.on("error"): the transport has failed; its 'close' follows *)
SocketError(k) ==
    /\ ~crashed
    /\ IsSocket(k) /\ sockets[k].state = "open"
    /\ LET closed == handleConnectionClose(connections, stats, sockets[k].connId)
       IN  /\ connections' = closed.connections
           /\ stats' = closed.stats
    /\ sockets' = [sockets EXCEPT ![k].state = "errored"]
    /\ replies' = <<>>
    /\ lastOp' = "socketError"
    /\ NoHarvest
    /\ UNCHANGED <<now, listening, crashed, bindVars>>

(* socket.on("close"): the peer closed, or the transport was destroyed *)
SocketClose(k) ==
    /\ ~crashed
    /\ IsSocket(k) /\ sockets[k].state \in {"open", "destroyed", "errored"}
    /\ LET closed == handleConnectionClose(connections, stats, sockets[k].connId)
       IN  /\ connections' = closed.connections
           /\ stats' = closed.stats
    /\ sockets' = [sockets EXCEPT ![k].state = "closed"]
    /\ replies' = <<>>
    /\ lastOp' = "socketClose"
    /\ NoHarvest
    /\ UNCHANGED <<now, listening, crashed, bindVars>>

(* the setTimeout callback of the connection callback *)
ProtocolTimer(k) ==
    /\ ~crashed
    /\ IsSocket(k) /\ sockets[k].timer
    /\ now - sockets[k].acceptedAt >= ProtocolTimeout(sockets[k].service)
    /\ sockets' = [Destroy(sockets, IF Has(sockets[k].connId) THEN {k} ELSE {})
                      EXCEPT ![k].timer = FALSE]
    /\ replies' = <<>>
    /\ lastOp' = "protocolTimer"
    /\ NoHarvest
    /\ UNCHANGED <<now, connections, stats, listening, crashed, bindVars>>

StaleConnections(conns, t) == {id \in DOMAIN conns : t - conns[id].startTime > StaleCeiling}

(* cleanupStaleConnections, run by the interval of start() *)
cleanupStaleConnections ==
    /\ ~crashed
    /\ LET stale == StaleConnections(connections, now)
       IN  /\ sockets' = Destroy(sockets, {connections[id].socket : id \in stale} \ {0})
           /\ connections' = Remove(connections, stale)
    /\ replies' = <<>>
    /\ lastOp' = "cleanupStaleConnections"
    /\ NoHarvest
    /\ UNCHANGED <<now, stats, listening, crashed, bindVars>>

(* HoneypotCore.stop *)
Stop ==
    /\ ~crashed /\ listening
    /\ listening' = FALSE
    /\ services' = [name \in DOMAIN services |-> 0]
    /\ UNCHANGED <<ports, busy, setup>>
    /\ sockets' = Destroy(sockets, {connections[id].socket : id \in DOMAIN connections} \ {0})
    /\ connections' = Remove(connections, DOMAIN connections)
    /\ replies' = <<>>
    /\ lastOp' = "stop"
    /\ NoHarvest
    /\ UNCHANGED <<now, stats, crashed>>

(* time passes *)
Tick(step, ticks) ==
    /\ now + step <= ticks * step
    /\ now' = now + step
    /\ replies' = <<>>
    /\ lastOp' = "tick"
    /\ NoHarvest
    /\ UNCHANGED coreVars

-----------------------------------------------------------------------------
(* AttackDetector: its operations as steps.  attackDetected is emitted     *)
(* synchronously to TrapDaemon.handleAttackDetection, which pushes on      *)
(* attacks.                                                                 *)

MaxBuf == 2
MaxAttacks == 2
MaxActivity == 1
DetectorTicks == 1

Observation(src_ip, payload, dst_port) ==
    [src_ip |-> src_ip, source |-> "", payload |-> payload, dst_port |-> dst_port, port |-> 0]

Emit(incidents) ==
    /\ Deliver(incidents)
    /\ Len(attacks') <= MaxAttacks

DetectorStep(op) ==
    /\ ~crashed
    /\ replies' = <<>>
    /\ lastOp' = op
    /\ UNCHANGED <<now, connections, sockets, stats, listening, bindVars>>

(* the engine after AttackDetector.initialize() and start(): the 5 s       *)
(* interval of setupTrafficAnalysis and the 30 s interval of               *)
(* startBehavioralAnalysis are set                                         *)
EngineStarted == [isActive |-> TRUE, monitoringInterval |-> TRUE, behaviorInterval |-> TRUE]

(* AttackDetector.stop: clears behaviorInterval (and threatHuntingInterval, *)
(* which is never set)                                                      *)
stop(e) == [e EXCEPT !.isActive = FALSE, !.behaviorInterval = FALSE]

(* AttackDetector.start *)
start(e) == [e EXCEPT !.isActive = TRUE, !.behaviorInterval = TRUE]

EngineCall(op) ==
    /\ emitted' = <<>>
    /\ lastTraffic' = <<>>
    /\ DetectorStep(op)
    /\ UNCHANGED <<trafficBuffer, ipActivity, attackPatterns, attacks, targets, logged, alerted, crashed>>

(* TrapDaemon.cleanup -> attackDetector.stop() *)
DetectorStop ==
    /\ engine.isActive
    /\ engine' = stop(engine)
    /\ EngineCall("detectorStop")

(* attackDetector.start() on an engine that has been stopped *)
DetectorStart ==
    /\ ~engine.isActive
    /\ engine' = start(engine)
    /\ EngineCall("detectorStart")

ProcessTrafficData(data, cap) ==
    /\ Len(trafficBuffer) < cap
    /\ \E done \in {processTrafficData(trafficBuffer, data, now)} :
           /\ trafficBuffer' = done.buffer
           /\ attackPatterns' = attackPatterns \o done.incidents
           /\ Emit(done.incidents)
    /\ lastTraffic' = <<data>>
    /\ DetectorStep("processTrafficData")
    /\ UNCHANGED <<ipActivity, engine, crashed>>

AnalyzeLogLine(line) ==
    /\ \E incidents \in {analyzeLogLine(line)} :
           /\ attackPatterns' = attackPatterns \o incidents
           /\ Emit(incidents)
    /\ lastTraffic' = <<>>
    /\ DetectorStep("analyzeLogLine")
    /\ UNCHANGED <<trafficBuffer, ipActivity, engine, crashed>>

RecordIPActivity(ip, port, cap) ==
    /\ SumSeq([k \in 1..Len(ipActivity) |-> Len(ipActivity[k].activities)]) < cap
    /\ ipActivity' = recordIPActivity(ipActivity, ip, [port |-> port], now)
    /\ emitted' = <<>>
    /\ lastTraffic' = <<>>
    /\ DetectorStep("recordIPActivity")
    /\ UNCHANGED <<trafficBuffer, attackPatterns, engine, attacks, targets, logged, alerted, crashed>>

(* the 5 s interval of setupTrafficAnalysis *)
AnalyzeTrafficBuffer ==
    /\ engine.monitoringInterval
    /\ \E done \in {analyzeTrafficBuffer(trafficBuffer, now)} :
           /\ trafficBuffer' = done.buffer
           /\ Emit(done.incidents)
           /\ crashed' = done.threw
    /\ lastTraffic' = <<>>
    /\ DetectorStep("analyzeTrafficBuffer")
    /\ UNCHANGED <<ipActivity, attackPatterns, engine>>

(* the 30 s interval of startBehavioralAnalysis *)
AnalyzeBehaviorPatterns ==
    /\ engine.behaviorInterval
    /\ \E done \in {analyzeBehaviorPatterns(ipActivity, now)} :
           /\ ipActivity' = done.activity
           /\ attackPatterns' = attackPatterns \o done.incidents
           /\ Emit(done.incidents)
           /\ crashed' = done.threw
    /\ lastTraffic' = <<>>
    /\ DetectorStep("analyzeBehaviorPatterns")
    /\ UNCHANGED <<trafficBuffer, engine>>

-----------------------------------------------------------------------------
(* The session layer wired to the daemon and the detector                   *)

InitDetector ==
    /\ now = 0
    /\ engine = EngineStarted
    /\ targets = <<>>
    /\ ipActivity = <<>>
    /\ attackPatterns = <<>>
    /\ emitted = <<>>
    /\ attacks = <<>>
    /\ logged = <<>>
    /\ alerted = <<>>
    /\ lastTraffic = <<>>

-----------------------------------------------------------------------------
(* HoneypotCore.initialize: the port table, the probe of                    *)
(* checkWSLCapabilities and the listeners of setupServices.                 *)

AltOffset == 1000
AltLimit == 2000
MaxLate == 1

ServiceKeys ==
    <<"ssh", "telnet", "ftp", "http", "https", "smtp", "mysql", "postgresql", "redis",
      "mongodb", "rdp", "smb", "dns", "snmp", "tftp", "vnc", "elasticsearch", "memcached">>

ConfiguredPorts ==
    [ssh |-> SSHPort, telnet |-> 2323, ftp |-> 2121, http |-> 8080, https |-> 8443,
     smtp |-> 2525, mysql |-> 3306, postgresql |-> 5432, redis |-> 6379, mongodb |-> 27017,
     rdp |-> 3389, smb |-> 445, dns |-> 5353, snmp |-> 1161, tftp |-> 6969, vnc |-> 5900,
     elasticsearch |-> 9200, memcached |-> 11211]

testPorts == <<2222, 2121, 2323, 8080, 3306, 5432, 6379>>

(* the services whose 'error' handler tries the next port *)
CoreServices == {"ssh", "http", "ftp", "telnet"}

(* setupServices: the order of the create calls *)
SetupOrder ==
    <<"ssh", "http", "ftp", "telnet", "mysql", "postgresql", "redis", "mongodb",
      "dns", "snmp", "tftp", "vnc", "elasticsearch", "memcached">>

(* net.Server.listen(port) succeeds *)
CanListen(port, held, listeners) ==
    /\ port \notin held
    /\ \A name \in DOMAIN listeners : listeners[name] # port

(* checkPortAvailable(port): bind, then close at once *)
checkPortAvailable(port, held) == CanListen(port, held, <<>>)

(* let altPort = port + 1000; while (!available(altPort) && altPort < port + 2000) altPort++ *)
AltPort(port, held) ==
    CHOOSE alt \in (port + AltOffset)..(port + AltLimit) :
        /\ checkPortAvailable(alt, held) \/ alt = port + AltLimit
        /\ \A q \in (port + AltOffset)..(alt - 1) : ~checkPortAvailable(q, held)

(* Object.keys(this.ports).find((key) => this.ports[key] === port) *)
FindService(table, port) ==
    IF \E k \in 1..Len(ServiceKeys) : table[ServiceKeys[k]] = port
    THEN ServiceKeys[CHOOSE k \in 1..Len(ServiceKeys) :
                        /\ table[ServiceKeys[k]] = port
                        /\ \A j \in 1..(k - 1) : table[ServiceKeys[j]] # port]
    ELSE ""

RECURSIVE checkWSLCapabilities(_, _, _)
checkWSLCapabilities(table, held, i) ==
    IF i > Len(testPorts) THEN table
    ELSE IF checkPortAvailable(testPorts[i], held) THEN checkWSLCapabilities(table, held, i + 1)
    ELSE LET service == FindService(table, testPorts[i])
         IN  checkWSLCapabilities(
                 IF service = "" THEN table
                 ELSE [table EXCEPT ![service] = AltPort(testPorts[i], held)],
                 held, i + 1)

getServicePorts == ports

BindStep(op) ==
    /\ ~crashed
    /\ lastOp' = op
    /\ replies' = <<>>
    /\ NoHarvest
    /\ UNCHANGED <<now, connections, sockets, stats, listening, crashed>>

CheckWSLCapabilities ==
    /\ setup.phase = "checkWSLCapabilities"
    /\ ports' = checkWSLCapabilities(ports, busy, 1)
    /\ setup' = [setup EXCEPT !.phase = "setupServices"]
    /\ UNCHANGED <<services, busy>>
    /\ BindStep("checkWSLCapabilities")

(* another process binds a port after the probe *)
Occupy(port) ==
    /\ setup.phase = "setupServices"
    /\ setup.late < MaxLate
    /\ port \notin busy
    /\ CanListen(port, busy, services)
    /\ busy' = busy \cup {port}
    /\ setup' = [setup EXCEPT !.late = @ + 1]
    /\ UNCHANGED <<ports, services>>
    /\ BindStep("occupy")

(* server.listen(port) of a create call: the server is in services either way *)
Listen(name, port) ==
    IF CanListen(port, busy, services)
    THEN /\ services' = [n \in DOMAIN services \cup {name} |-> IF n = name THEN port ELSE services[n]]
         /\ setup' = [setup EXCEPT !.created = IF name \in DOMAIN services THEN @ ELSE @ + 1,
                                   !.errors = @ \ {name},
                                   !.phase = IF setup.created + 1 >= Len(SetupOrder)
                                             THEN "initialized" ELSE @]
    ELSE /\ services' = [n \in DOMAIN services \cup {name} |-> IF n = name THEN 0 ELSE services[n]]
         /\ setup' = [setup EXCEPT !.created = IF name \in DOMAIN services THEN @ ELSE @ + 1,
                                   !.errors = @ \cup {name},
                                   !.phase = IF setup.created + 1 >= Len(SetupOrder)
                                             THEN "initialized" ELSE @]

(* createSSHHoneypot, createHTTPHoneypot, createFTPHoneypot, createTelnetHoneypot, *)
(* createGenericService: the next create call of setupServices                     *)
Create ==
    /\ setup.phase = "setupServices"
    /\ Listen(SetupOrder[setup.created + 1], ports[SetupOrder[setup.created + 1]])
    /\ UNCHANGED <<ports, busy>>
    /\ BindStep("create")

(* server.on("error") with EADDRINUSE in a core service: the next port, and *)
(* the create call again                                                     *)
RetryNextPort(name) ==
    /\ name \in setup.errors \cap CoreServices
    /\ ports' = [ports EXCEPT ![name] = @ + 1]
    /\ Listen(name, ports[name] + 1)
    /\ UNCHANGED busy
    /\ BindStep("retry")

(* server.on("error") with EADDRINUSE in createGenericService: a warning *)
SkipService(name) ==
    /\ name \in setup.errors \ CoreServices
    /\ setup' = [setup EXCEPT !.errors = @ \ {name}, !.skipped = @ \cup {name}]
    /\ UNCHANGED <<ports, services, busy>>
    /\ BindStep("skip")

(* what other processes may hold when initialize() starts *)
BusyBlocks ==
    {{ConfiguredPorts.ssh}, {ConfiguredPorts.ssh + 1},
     (ConfiguredPorts.ssh + AltOffset)..(ConfiguredPorts.mysql - 1),
     {ConfiguredPorts.mysql}, {ConfiguredPorts.http}, {ConfiguredPorts.dns},
     {ConfiguredPorts.redis}}

LatePorts == {ConfiguredPorts.ssh, ConfiguredPorts.ftp, ConfiguredPorts.vnc}

Started ==
    /\ ports = ConfiguredPorts
    /\ services = [name \in {SetupOrder[k] : k \in 1..Len(SetupOrder)} |-> ConfiguredPorts[name]]
    /\ busy = {}
    /\ setup = [phase |-> "initialized", created |-> Len(SetupOrder), errors |-> {},
                skipped |-> {}, late |-> 0]

InitBind ==
    /\ InitDetector
    /\ trafficBuffer = <<>>
    /\ connections = <<>>
    /\ sockets = <<>>
    /\ stats = [totalConnections |-> 0, activeConnections |-> 0]
    /\ listening = FALSE
    /\ crashed = FALSE
    /\ replies = <<>>
    /\ lastOp = "init"
    /\ ports = ConfiguredPorts
    /\ services = <<>>
    /\ busy \in {UNION blocks : blocks \in SUBSET BusyBlocks}
    /\ setup = [phase |-> "checkWSLCapabilities", created |-> 0, errors |-> {},
                skipped |-> {}, late |-> 0]

NextBind ==
    \/ CheckWSLCapabilities
    \/ \E port \in LatePorts : Occupy(port)
    \/ Create
    \/ \E name \in CoreServices : RetryNextPort(name)
    \/ \E name \in DOMAIN services : SkipService(name)

SpecBind == InitBind /\ [][NextBind]_vars

(* initialize() has returned and no 'error' event is due *)
Initialized == setup.phase = "initialized" /\ setup.errors = {}

InitCore ==
    /\ Started
    /\ connections = <<>>
    /\ sockets = <<>>
    /\ stats = [totalConnections |-> 0, activeConnections |-> 0]
    /\ listening = TRUE
    /\ crashed = FALSE
    /\ replies = <<>>
    /\ lastOp = "init"

InitSessions == InitDetector /\ trafficBuffer = <<>> /\ InitCore

NextSessions ==
    \/ \E service \in LoginServices, id \in ConnectionIds : Accept(service, PublicAddress, id)
    \/ \E id \in ConnectionIds : HttpRequest(PublicAddress, id, AdminUrl)
    \/ \E k \in 1..MaxSockets, body \in HTTPBodies : HttpEnd(k, body)
    \/ \E k \in 1..MaxSockets, data \in SSHLines : SSHData(k, data)
    \/ \E k \in 1..MaxSockets : TelnetData(k, TelnetLine)
    \/ \E k \in 1..MaxSockets : SocketError(k)
    \/ \E k \in 1..MaxSockets : SocketClose(k)
    \/ \E k \in 1..MaxSockets : ProtocolTimer(k)
    \/ cleanupStaleConnections
    \/ Stop
    \/ Tick(StaleCeiling, MaxTicks)

SpecSessions == InitSessions /\ [][NextSessions]_vars

(* FTP clients only *)
NextFTP ==
    \/ \E id \in ConnectionIds : Accept("ftp", PublicAddress, id)
    \/ \E k \in 1..MaxSockets, data \in FTPLines : FTPData(k, data)
    \/ \E k \in 1..MaxSockets : SocketClose(k)

SpecFTP == InitSessions /\ [][NextFTP]_vars

(* HTTP clients only *)
NextHTTP ==
    \/ \E id \in ConnectionIds, url \in HTTPUrls : HttpRequest(PublicAddress, id, url)
    \/ \E k \in 1..MaxSockets, body \in HTTPBodies : HttpEnd(k, body)

SpecHTTP == InitSessions /\ [][NextHTTP]_vars

(* Activity Records near their cap: one source has RecordPrefill entries,  *)
(* each to its own port, a second source has two.                          *)
RecordPrefill == 98
RecordExtra == 4
RecordPorts == {201, 202}

InitRecord ==
    /\ now = 0
    /\ engine = EngineStarted
    /\ targets = <<>>
    /\ attackPatterns = <<>> /\ emitted = <<>> /\ attacks = <<>>
    /\ logged = <<>> /\ alerted = <<>> /\ lastTraffic = <<>>
    /\ ipActivity = <<[ip |-> Scanner,
                       activities |->
                           [k \in 1..RecordPrefill |->
                               recordIPActivity(<<>>, Scanner, [port |-> k], 0)[1].activities[1]]],
                      [ip |-> NumericSource,
                       activities |->
                           [k \in 1..2 |->
                               recordIPActivity(<<>>, NumericSource, [port |-> k], 0)[1].activities[1]]]>>
    /\ trafficBuffer = <<>>
    /\ InitCore

NextRecord ==
    \/ \E ip \in {Scanner, NumericSource, PrivateAddress}, port \in RecordPorts :
            /\ \E k \in 1..Len(ipActivity) : Len(ipActivity[k].activities) >= RecordPrefill
            /\ RecordIPActivity(ip, port, RecordPrefill + 2 + RecordExtra)
    \/ Tick(AnalysisWindow, DetectorTicks)

SpecRecord == InitRecord /\ [][NextRecord]_vars

(* clients connect and become targets of the daemon while the engine       *)
(* reports Observations from their addresses                               *)
NextTargets ==
    \/ \E service \in {"ssh"}, id \in ConnectionIds : Accept(service, PublicAddress, id)
    \/ \E src \in {Scanner, PrivateAddress}, payload \in {Hello, SqlPayload} :
            ProcessTrafficData(Observation(src, payload, SSHPort), MaxBuf)
    \/ \E k \in 1..MaxSockets : SocketClose(k)
    \/ Tick(AnalysisWindow, DetectorTicks)

SpecTargets == InitSessions /\ [][NextTargets]_vars

(* sessions that talk while their timers run; the clock moves by the SSH   *)
(* timeout                                                                 *)
NextIdle ==
    \/ \E service \in SocketServices, id \in ConnectionIds : Accept(service, PublicAddress, id)
    \/ \E k \in 1..MaxSockets : SSHData(k, SSHCommand)
    \/ \E k \in 1..MaxSockets : TelnetData(k, TelnetLine)
    \/ \E k \in 1..MaxSockets : FTPData(k, UserLine)
    \/ \E k \in 1..MaxSockets : ProtocolTimer(k)
    \/ \E k \in 1..MaxSockets : SocketClose(k)
    \/ Tick(SSHTimeout, MaxTicks)

SpecIdle == InitSessions /\ [][NextIdle]_vars

(* FTP and SSH clients that try to log in *)
NextAuth ==
    \/ \E service \in {"ftp", "ssh"}, id \in ConnectionIds : Accept(service, PublicAddress, id)
    \/ \E k \in 1..MaxSockets, data \in AuthLines : FTPData(k, data)
    \/ \E k \in 1..MaxSockets, data \in SSHLines : SSHData(k, data)
    \/ \E k \in 1..MaxSockets : SocketClose(k)

SpecAuth == InitSessions /\ [][NextAuth]_vars

-----------------------------------------------------------------------------
(* The detector called by its environment                                   *)

Traffic ==
    {Observation(Scanner, payload, SSHPort) : payload \in Payloads}
    \cup {Observation(src, SqlPayload, SSHPort) : src \in PrivateSources \cup PublicSources}

Init == InitDetector /\ trafficBuffer = <<>> /\ InitCore

Next ==
    \/ \E data \in Traffic : ProcessTrafficData(data, MaxBuf)
    \/ \E line \in LogLines : AnalyzeLogLine(line)
    \/ \E ip \in {Scanner, PrivateAddress} : RecordIPActivity(ip, SSHPort, MaxActivity)
    \/ AnalyzeTrafficBuffer
    \/ AnalyzeBehaviorPatterns
    \/ Tick(AnalysisWindow, DetectorTicks)

Spec == Init /\ [][Next]_vars

(* the engine is stopped and started while Observations arrive and the    *)
(* intervals that are set fire                                             *)
NextStop ==
    \/ \E src \in {Scanner, PrivateAddress}, payload \in {Hello, SqlPayload} :
            ProcessTrafficData(Observation(src, payload, SSHPort), MaxBuf)
    \/ AnalyzeTrafficBuffer
    \/ AnalyzeBehaviorPatterns
    \/ DetectorStop
    \/ DetectorStart
    \/ Tick(AnalysisWindow, DetectorTicks)

SpecStop == Init /\ [][NextStop]_vars

-----------------------------------------------------------------------------
(* The fast cycle on a buffer that is close to the aggregate thresholds:   *)
(* Scanner has sent Prefill Observations to distinct ports, PrefillAuth of *)
(* them with an authentication keyword.                                     *)

Prefill == 14
PrefillAuth == 9
Extra == 2

PrefillTraffic ==
    [k \in 1..Prefill |->
        Observation(Scanner, IF k <= PrefillAuth THEN LoginPayload ELSE Hello, k)]

InitAgg ==
    /\ InitDetector
    /\ trafficBuffer = FeedAll(<<>>, PrefillTraffic, 0).buffer
    /\ InitCore

(* Observations keep arriving while the burst is in the buffer *)
NextAgg ==
    \/ \E src \in {Scanner, PrivateAddress}, payload \in {LoginPayload, Hello},
          port \in {1} \cup ((Prefill + 1)..(Prefill + Extra)) :
            /\ Len(trafficBuffer) >= Prefill
            /\ ProcessTrafficData(Observation(src, payload, port), Prefill + Extra)
    \/ AnalyzeTrafficBuffer
    \/ Tick(AnalysisWindow, DetectorTicks)

SpecAgg == InitAgg /\ [][NextAgg]_vars

(* two sources send while the burst of the first one ages *)
NextWindow ==
    \/ \E src \in PublicSources \cup {PrivateAddress}, payload \in {LoginPayload, Hello},
          port \in (Prefill + 1)..(Prefill + Extra) :
            /\ Len(trafficBuffer) >= Prefill
            /\ ProcessTrafficData(Observation(src, payload, port), Prefill + Extra)
    \/ AnalyzeTrafficBuffer
    \/ Tick(AnalysisWindow, DetectorTicks)

SpecWindow == InitAgg /\ [][NextWindow]_vars

(* the threat-signature pass: blacklisted and public sources *)
NextThreat ==
    \/ \E src \in MaliciousIPs \cup {Scanner}, payload \in {Hello, SqlPayload, ThreatPayload, ShellPayload} :
            ProcessTrafficData(Observation(src, payload, SSHPort), MaxBuf)
    \/ AnalyzeTrafficBuffer
    \/ Tick(AnalysisWindow, DetectorTicks)

SpecThreat == Init /\ [][NextThreat]_vars

-----------------------------------------------------------------------------
(* The buffer close to its capacity: Scanner has sent BufferCap - CapSlack  *)
(* Observations, none of which reached the cap.                             *)

CapSlack == 2

FullTraffic == [k \in 1..(BufferCap - CapSlack) |-> Observation(Scanner, Hello, k)]

InitCap ==
    /\ InitDetector
    /\ trafficBuffer = [k \in 1..Len(FullTraffic) |->
                            processTrafficData(<<>>, FullTraffic[k], 0).buffer[1]]
    /\ InitCore

NextCap ==
    \/ \E src \in {Scanner, PublicAddress, PrivateAddress}, payload \in {Hello, SqlPayload} :
            /\ \/ Len(trafficBuffer) >= BufferCap - CapSlack
               \/ Len(trafficBuffer) \in BufferKeep..(BufferKeep + CapSlack - 1)
            /\ ProcessTrafficData(Observation(src, payload, SSHPort), BufferCap + 1)
    \/ AnalyzeTrafficBuffer
    \/ Tick(AnalysisWindow, DetectorTicks)

SpecCap == InitCap /\ [][NextCap]_vars

(* The slow cadence near its thresholds: one source has sent               *)
(* BehaviorPrefill activities to SlowPorts distinct ports at time 0.        *)
BehaviorPrefill == 48
BehaviorExtra == 3
SlowPorts == BehaviorPortThreshold - 1

InitBehavior ==
    /\ now = 0
    /\ engine = EngineStarted
    /\ targets = <<>>
    /\ attackPatterns = <<>> /\ emitted = <<>> /\ attacks = <<>>
    /\ logged = <<>> /\ alerted = <<>> /\ lastTraffic = <<>>
    /\ ipActivity = <<[ip |-> Scanner,
                       activities |->
                           [k \in 1..BehaviorPrefill |->
                               recordIPActivity(<<>>, Scanner,
                                                [port |-> ((k - 1) % SlowPorts) + 1],
                                                0)[1].activities[1]]]>>
    /\ trafficBuffer = <<>>
    /\ InitCore

NextBehavior ==
    \/ \E ip \in PublicSources \cup {PrivateAddress},
          port \in {BehaviorPortThreshold, BehaviorPortThreshold + 1} :
            /\ \E k \in 1..Len(ipActivity) : Len(ipActivity[k].activities) >= BehaviorPrefill
            /\ RecordIPActivity(ip, port, BehaviorPrefill + BehaviorExtra)
    \/ AnalyzeBehaviorPatterns
    \/ Tick(AnalysisWindow, DetectorTicks)

SpecBehavior == InitBehavior /\ [][NextBehavior]_vars

(* The fast cadence near the byte threshold: one source has sent           *)
(* ExfilPrefill payloads of 625 characters at time 0, one short of 50 000. *)
ExfilPrefill == 79
ExfilExtra == 3
BulkTraffic == [k \in 1..ExfilPrefill |-> Observation(Scanner, LargePayload, SSHPort)]

InitExfil ==
    /\ InitDetector
    /\ trafficBuffer = [k \in 1..Len(BulkTraffic) |->
                            processTrafficData(<<>>, BulkTraffic[k], 0).buffer[1]]
    /\ InitCore

NextExfil ==
    \/ \E src \in PublicSources \cup {PrivateAddress}, payload \in {LimitPayload, LargePayload} :
            /\ Len(trafficBuffer) >= ExfilPrefill
            /\ ProcessTrafficData(Observation(src, payload, SSHPort), ExfilPrefill + ExfilExtra)
    \/ AnalyzeTrafficBuffer
    \/ Tick(AnalysisWindow, DetectorTicks)

SpecExfil == InitExfil /\ [][NextExfil]_vars

-----------------------------------------------------------------------------
(* The fast cycle when processTrafficData has been called with a source    *)
(* that is a number: the buffer holds what the calls pushed, none of which *)
(* reached the cap: PortScanThreshold ports of NumericSource, then one     *)
(* more than that of Scanner.                                               *)

FaultTraffic ==
    [k \in 1..(2 * PortScanThreshold + 1) |->
        IF k <= PortScanThreshold THEN Observation(NumericSource, Hello, k)
        ELSE Observation(Scanner, Hello, k - PortScanThreshold)]

InitFault ==
    /\ InitDetector
    /\ trafficBuffer = [k \in 1..Len(FaultTraffic) |->
                            processTrafficData(<<>>, FaultTraffic[k], 0).buffer[1]]
    /\ InitCore

NextFault ==
    \/ \E src \in {Scanner, NumericSource, PrivateAddress}, payload \in {SqlPayload, Hello},
          port \in {1, PortScanThreshold + 1} :
            /\ Len(trafficBuffer) >= Len(FaultTraffic)
            /\ ProcessTrafficData(Observation(src, payload, port), Len(FaultTraffic) + Extra)
    \/ AnalyzeTrafficBuffer
    \/ Tick(AnalysisWindow, DetectorTicks)

SpecFault == InitFault /\ [][NextFault]_vars

-----------------------------------------------------------------------------
(* Properties of the detector called by its environment (Spec)              *)

Digits == <<"0", "1", "2", "3", "4", "5", "6", "7", "8", "9">>
DigitValue(c) == (CHOOSE d \in 1..10 : Digits[d] = c) - 1
AllDigits(s) == Len(s) > 0 /\ \A i \in 1..Len(s) : IsDigit(CharAt(s, i))

RECURSIVE Decimal(_)
Decimal(s) ==
    IF Len(s) = 0 THEN 0
    ELSE 10 * Decimal(SubSeq(s, 1, Len(s) - 1)) + DigitValue(CharAt(s, Len(s)))

(* 127.0.0.1, ::1, 10.x, 172.16-31.x, 192.168.x, by the value of the octets *)
IsLoopbackOrPrivate(ip) ==
    \/ ip \in {"127.0.0.1", "::1"}
    \/ \E d1 \in 2..Len(ip) : \E d2 \in (d1 + 2)..Len(ip) :
          /\ CharAt(ip, d1) = "." /\ CharAt(ip, d2) = "."
          /\ AllDigits(SubSeq(ip, 1, d1 - 1)) /\ AllDigits(SubSeq(ip, d1 + 1, d2 - 1))
          /\ LET a == Decimal(SubSeq(ip, 1, d1 - 1))
                 b == Decimal(SubSeq(ip, d1 + 1, d2 - 1))
             IN  a = 10 \/ (a = 172 /\ b >= 16 /\ b <= 31) \/ (a = 192 /\ b = 168)

(* C1: no Incident that is emitted, after processTrafficData, a log line,  *)
(* a fast or a slow cycle, has a loopback or private source; nor has any   *)
(* Incident the daemon has received.                                        *)
NoPrivateSourceEmitted ==
    /\ \A i \in 1..Len(emitted) : ~IsLoopbackOrPrivate(emitted[i].source)
    /\ \A i \in 1..Len(attacks) : ~IsLoopbackOrPrivate(attacks[i].source)
    /\ \A i \in 1..Len(attackPatterns) : ~IsLoopbackOrPrivate(attackPatterns[i].source)

(* a private source has just sent the SQL payload, and nothing was emitted *)
PrivateSourceIgnored ==
    /\ lastOp = "processTrafficData"
    /\ Len(lastTraffic) = 1
    /\ IsLoopbackOrPrivate(lastTraffic[1].src_ip)
    /\ lastTraffic[1].payload = SqlPayload
    /\ emitted = <<>>
    /\ attacks # <<>>

(* C3: the SQL payload passed to processTrafficData from a source the      *)
(* filter lets through produces exactly one Incident, of type sqlinjection *)
(* and severity "high".                                                     *)
SqlPayloadOneIncident ==
    (/\ lastOp = "processTrafficData"
     /\ lastTraffic[1].payload = SqlPayload
     /\ ~IsLoopbackOrPrivate(lastTraffic[1].src_ip))
    => /\ Len(emitted) = 1
       /\ emitted[1].type = "sqlinjection"
       /\ emitted[1].severity = "high"
       /\ emitted[1].source = lastTraffic[1].src_ip

SqlPayloadReported ==
    /\ lastOp = "processTrafficData"
    /\ lastTraffic[1].payload = SqlPayload
    /\ lastTraffic[1].src_ip = Scanner
    /\ Len(emitted) = 1
    /\ emitted[1].type = "sqlinjection"

(* the Observations of the buffer from `source` that match the rule and    *)
(* are within its time window                                               *)
MatchCount(rule, source) ==
    Cardinality({k \in 1..Len(trafficBuffer) :
                    /\ trafficBuffer[k].src_ip = source
                    /\ now - trafficBuffer[k].timestamp <= rule.timeWindow
                    /\ RegExpTestOf(rule.pattern, trimOf(trafficBuffer[k].payload))})

(* C4: an Incident of a rule with threshold k > 1 is emitted by the        *)
(* signature pass only when the source has k matching Observations within *)
(* the rule's time window.                                                  *)
RuleFiresAtThreshold ==
    lastOp = "processTrafficData" =>
        \A i \in 1..Len(emitted) :
            (emitted[i].type \in RuleNames /\ RuleNamed(emitted[i].type).threshold > 1)
            => MatchCount(RuleNamed(emitted[i].type), emitted[i].source)
                  >= RuleNamed(emitted[i].type).threshold

(* C18: every step emits the Incidents it creates once each, in order, and *)
(* the daemon adds each of them once to its attack list, to its log and to *)
(* the alerts it sends; those of the signature, log and behavioral paths   *)
(* are the ones the engine has pushed on attackPatterns.                    *)
IncidentsDeliveredOnce ==
    [][/\ attacks' = attacks \o emitted'
       /\ logged' = logged \o emitted'
       /\ alerted' = alerted \o emitted'
       /\ lastOp' \in {"processTrafficData", "analyzeLogLine", "analyzeBehaviorPatterns"}
          => attackPatterns' = attackPatterns \o emitted']_vars

SecondIncidentDelivered ==
    /\ lastOp = "analyzeLogLine"
    /\ Len(emitted) = 1
    /\ Len(attacks) = 2
    /\ attacks[2] = emitted[1]
    /\ logged = attacks
    /\ alerted = attacks
    /\ attackPatterns = attacks

(* C20: any two Incidents the daemon has received that have the same      *)
(* source carry the same targetId, whichever path created them.            *)
TargetIdDependsOnSourceOnly ==
    \A i, j \in 1..Len(attacks) :
        attacks[i].source = attacks[j].source => attacks[i].targetId = attacks[j].targetId

-----------------------------------------------------------------------------
(* Properties of the fast cycle (SpecAgg).  After analyzeTrafficBuffer the *)
(* buffer is the traffic the cycle has analysed.                            *)

Count(seq, type, source) ==
    Cardinality({i \in 1..Len(seq) : seq[i].type = type /\ seq[i].source = source})

DistinctPorts(source) ==
    Cardinality({trafficBuffer[k].dst_port :
                    k \in {j \in 1..Len(trafficBuffer) : trafficBuffer[j].src_ip = source}})

HasAuthKeyword(payload) ==
    \E w \in {"login", "password", "auth", "ssh", "ftp", "telnet"} :
        includesOf(toLowerCaseOf(payload), w)

AuthObservations(source) ==
    Cardinality({k \in 1..Len(trafficBuffer) :
                    /\ trafficBuffer[k].src_ip = source
                    /\ HasAuthKeyword(trafficBuffer[k].payload)})

(* C5: a fast cycle emits exactly one port_scanning Incident for a source  *)
(* with 16 or more distinct destination ports in the window, and none for  *)
(* a source with 15 or fewer.                                               *)
PortScanAboveFifteen ==
    lastOp = "analyzeTrafficBuffer" =>
        /\ DistinctPorts(Scanner) >= 16 => Count(emitted, "port_scanning", Scanner) = 1
        /\ DistinctPorts(Scanner) <= 15 => Count(emitted, "port_scanning", Scanner) = 0
        /\ Count(emitted, "port_scanning", PrivateAddress) = 0

SixteenPortsReported ==
    /\ lastOp = "analyzeTrafficBuffer"
    /\ DistinctPorts(Scanner) = 16
    /\ Len(trafficBuffer) = 16
    /\ Count(emitted, "port_scanning", Scanner) = 1

(* C6: a fast cycle emits exactly one brute_force Incident for a source    *)
(* with 11 or more auth-keyword Observations in the window, and none for a *)
(* source with 10 or fewer.                                                 *)
BruteForceAboveTen ==
    lastOp = "analyzeTrafficBuffer" =>
        /\ AuthObservations(Scanner) >= 11 => Count(emitted, "brute_force", Scanner) = 1
        /\ AuthObservations(Scanner) <= 10 => Count(emitted, "brute_force", Scanner) = 0
        /\ Count(emitted, "brute_force", PrivateAddress) = 0

ElevenAuthReported ==
    /\ lastOp = "analyzeTrafficBuffer"
    /\ AuthObservations(Scanner) = 11
    /\ Count(emitted, "brute_force", Scanner) = 1

(* C13: a fast cycle is not aborted by the failure of one item: the        *)
(* process keeps running and a source with 16 ports in the window is       *)
(* reported, whatever else the buffer holds.                                *)
CycleSurvivesFailingItem ==
    lastOp = "analyzeTrafficBuffer" =>
        /\ ~crashed
        /\ DistinctPorts(Scanner) >= 16 => Count(emitted, "port_scanning", Scanner) = 1

(* C14: once initialize() is over every created service is listening or   *)
(* was skipped with a warning, and a service whose own configured port is  *)
(* free listens on it, whatever ports the other services found taken.       *)
BindLeavesOthersAlone ==
    Initialized =>
        \A name \in DOMAIN services :
            /\ services[name] # 0 \/ name \in setup.skipped
            /\ ConfiguredPorts[name] \notin busy => services[name] = ConfiguredPorts[name]

(* C15: once initialize() is over the reported mapping names, for every    *)
(* service created, the port its server is listening on.                    *)
MappingNamesListeningPort ==
    Initialized => \A name \in DOMAIN services : getServicePorts[name] = services[name]

(* C16: an FTP client that sends USER alice and then PWD on a fresh        *)
(* session is answered, on its own transport, with the PWD reply that      *)
(* quotes the path "/"; a client that has sent QUIT is answered with the   *)
(* goodbye, its transport is no longer open, and once the transport is     *)
(* closed the table holds no entry of it.                                   *)
FtpTransports(socks) == {k \in 1..Len(socks) : socks[k].service = "ftp"}

FtpDialogue ==
    [][\A k \in FtpTransports(sockets) :
          /\ (sockets[k].sent = <<UserLine>> /\ sockets'[k].sent = <<UserLine, PwdLine>>)
                => replies' = Write(k, <<"257 \"/\" is current directory.\r\n">>)
          /\ (sockets'[k].sent # sockets[k].sent /\ sockets'[k].sent[Len(sockets'[k].sent)] = QuitLine)
                => /\ replies' = Write(k, <<"221 Goodbye.\r\n">>)
                   /\ sockets'[k].state = "destroyed"
          /\ (QuitLine \in Range(sockets[k].sent) /\ sockets'[k].state = "closed")
                => \A id \in DOMAIN connections' : connections'[id].socket # k]_vars

AggregateTypes == {"port_scanning", "brute_force", "data_exfiltration", "suspicious_volume"}

(* the Incidents of `type` and `source` the daemon received before the     *)
(* last step                                                                *)
ReportedBefore(type, source) == Count(attacks, type, source) - Count(emitted, type, source)

(* C19: a fast cycle emits at most one Incident per aggregate rule and     *)
(* source, and a source that was reported by an earlier cycle and still    *)
(* exceeds the threshold is reported again.                                 *)
OnePerSourceEveryCycle ==
    lastOp = "analyzeTrafficBuffer" =>
        /\ \A i \in 1..Len(emitted) : emitted[i].type \in AggregateTypes
        /\ \A i, j \in 1..Len(emitted) :
               (emitted[i].type = emitted[j].type /\ emitted[i].source = emitted[j].source)
               => i = j
        /\ (ReportedBefore("port_scanning", Scanner) >= 1 /\ DistinctPorts(Scanner) >= 16)
           => Count(emitted, "port_scanning", Scanner) = 1
        /\ (ReportedBefore("brute_force", Scanner) >= 1 /\ AuthObservations(Scanner) >= 11)
           => Count(emitted, "brute_force", Scanner) = 1

ReportedAgain ==
    /\ lastOp = "analyzeTrafficBuffer"
    /\ ReportedBefore("port_scanning", Scanner) = 1
    /\ emitted = <<attacks[1]>>
    /\ emitted[1].type = "port_scanning"
    /\ Len(attacks) = 2

-----------------------------------------------------------------------------
(* Properties of the session layer (SpecSessions)                           *)

(* C2: every Observation handed to the detector carries the remote address *)
(* of its session as source, and the SQL payload received on a session     *)
(* from a public address produces an Incident that reaches the daemon.     *)
ObservationCarriesRemoteAddress ==
    lastOp \in {"sshData", "telnetData", "httpEnd"} =>
        /\ \A i \in 1..Len(lastTraffic) : lastTraffic[i].src_ip = ClientIP(PublicAddress)
        /\ (\E i \in 1..Len(lastTraffic) : lastTraffic[i].payload = SqlPayload)
           => \E j \in 1..Len(emitted) :
                 /\ emitted[j].source = ClientIP(PublicAddress)
                 /\ \E a \in 1..Len(attacks) : attacks[a] = emitted[j]

DataOps == {"sshData", "telnetData", "httpEnd"}

(* C11: the message a data handler has just handled gave exactly one        *)
(* Observation; the reply is written after it.                              *)
OneObservationPerMessage ==
    lastOp \in DataOps => Len(lastTraffic) = 1

(* C12: no exception escapes an event handler: the process keeps running.  *)
ProcessKeepsRunning == ~crashed

SSHEntries == {id \in DOMAIN connections :
                  connections[id].service = "ssh" /\ connections[id].socket # 0}

(* C17: an SSH session that has failed SSHMaxAttempts = 3 times has been   *)
(* force-closed: its transport is no longer open.                           *)
ClosedAfterThreeFailures ==
    \A id \in SSHEntries :
        connections[id].attempts >= SSHMaxAttempts
        => sockets[connections[id].socket].state # "open"

TelnetEntries == {id \in DOMAIN connections : connections[id].service = "telnet"}

ClosedIdStaysRemoved ==
    \A k \in 1..Len(sockets) :
        sockets[k].state \in {"errored", "closed"} => ~Has(sockets[k].connId)

(* the transports of the session `id` *)
TransportsOf(id) ==
    IF connections[id].socket # 0 THEN {connections[id].socket}
    ELSE {k \in 1..Len(sockets) :
             /\ sockets[k].service = "http"
             /\ sockets[k].connId = id
             /\ sockets[k].acceptedAt = connections[id].startTime}

(* C9: a sweep removes every session older than the ceiling and leaves its *)
(* transport destroyed; it leaves every other session and its transport as *)
(* they were.                                                               *)
SweepForceCloses ==
    [][cleanupStaleConnections =>
          \A id \in DOMAIN connections :
              IF now - connections[id].startTime > StaleCeiling
              THEN /\ id \notin DOMAIN connections'
                   /\ \A k \in TransportsOf(id) : sockets'[k].state # "open"
              ELSE /\ id \in DOMAIN connections'
                   /\ connections'[id] = connections[id]
                   /\ \A k \in TransportsOf(id) : sockets'[k] = sockets[k]]_vars

(* C10: the id a new session is given is no key of the table.               *)
NewSessionIdIsFresh ==
    [][lastOp' \in {"accept", "httpRequest"}
          => sockets'[Len(sockets')].connId \notin DOMAIN connections]_vars

(* C21: the active-connection counter equals the number of entries of the  *)
(* session table.                                                           *)
ActiveCountIsTableSize ==
    stats.activeConnections = Cardinality(DOMAIN connections)

(* C22: the Observation buffer never holds more than 1000 entries.         *)
BufferWithinCap == Len(trafficBuffer) <= 1000

(* the call that found 1000 entries has kept the newest 500 *)
OldestHalfEvicted ==
    /\ lastOp = "processTrafficData"
    /\ Len(trafficBuffer) = 500
    /\ trafficBuffer[500].dst_port = SSHPort

(* C23: a source with an Observation of the last 5 minutes in the buffer   *)
(* has a non-empty Activity Record.                                         *)
ActivityRecorded ==
    \A i \in 1..Len(trafficBuffer) :
        now - trafficBuffer[i].timestamp < 300000 =>
            \E k \in 1..Len(ipActivity) :
                /\ ipActivity[k].ip = ItemIP(trafficBuffer[i])
                /\ ipActivity[k].activities # <<>>

(* C24: data that arrives when every session has been closed or removed    *)
(* from the table (a data handler removes none) gives no Observation and   *)
(* no reply.                                                                *)
NothingAfterClose ==
    (lastOp \in DataOps /\ DOMAIN connections = {}) =>
        (lastTraffic = <<>> /\ replies = <<>>)

(* C25: a protocol timeout changes no transport but its own and no table   *)
(* entry; the stale sweep leaves every session that is not stale, and its  *)
(* transport, as they were; and the close event of a force-closed          *)
(* transport leaves the entries of the other sessions as they were.        *)
OthersKept(k) ==
    \A id \in DOMAIN connections :
        connections[id].socket # k =>
            id \in DOMAIN connections' /\ connections'[id] = connections[id]

ForceCloseTouchesOneSession ==
    [][/\ lastOp' = "protocolTimer" =>
            /\ connections' = connections
            /\ \E k \in 1..Len(sockets) : \A j \in 1..Len(sockets) \ {k} : sockets'[j] = sockets[j]
       /\ lastOp' = "cleanupStaleConnections" =>
            \A id \in DOMAIN connections :
                now - connections[id].startTime <= 1800000 =>
                    /\ id \in DOMAIN connections' /\ connections'[id] = connections[id]
                    /\ connections[id].socket # 0 =>
                           sockets'[connections[id].socket] = sockets[connections[id].socket]
       /\ lastOp' = "socketClose" =>
            \A k \in 1..Len(sockets) :
                (sockets[k].state = "destroyed" /\ sockets'[k].state = "closed") => OthersKept(k)
      ]_vars

(* C26: an Observation whose source is loopback or private is dropped      *)
(* before any state change: the call of processTrafficData leaves the      *)
(* buffer, the Activity Records and the recorded Incidents as they were,   *)
(* a call of recordIPActivity adds no record of such a source, and so no   *)
(* buffer entry and no Activity Record ever has a loopback or private      *)
(* source.                                                                 *)
NoPrivateSourceStored ==
    /\ \A i \in 1..Len(trafficBuffer) : ~IsLoopbackOrPrivate(ItemIP(trafficBuffer[i]))
    /\ \A k \in 1..Len(ipActivity) : ~IsLoopbackOrPrivate(ipActivity[k].ip)

PrivateSourceDropped ==
    /\ []NoPrivateSourceStored
    /\ [][ /\ (lastOp' = "processTrafficData" /\ IsLoopbackOrPrivate(ItemIP(lastTraffic'[1])))
                => /\ trafficBuffer' = trafficBuffer
                   /\ ipActivity' = ipActivity
                   /\ attackPatterns' = attackPatterns
                   /\ attacks' = attacks
           /\ lastOp' = "recordIPActivity"
                => /\ trafficBuffer' = trafficBuffer
                   /\ attackPatterns' = attackPatterns
                   /\ \/ ipActivity' = ipActivity
                      \/ \E k \in 1..Len(ipActivity') :
                            /\ ~IsLoopbackOrPrivate(ipActivity'[k].ip)
                            /\ Len(ipActivity'[k].activities) =
                                 1 + (IF k <= Len(ipActivity)
                                      THEN Len(ipActivity[k].activities) ELSE 0)
      ]_vars

(* a private source sends the SQL payload while the buffer and the         *)
(* Activity Records hold what a public source sent before                  *)
PrivateObservationDropped ==
    /\ lastOp = "processTrafficData"
    /\ IsLoopbackOrPrivate(ItemIP(lastTraffic[1]))
    /\ lastTraffic[1].payload = SqlPayload
    /\ Len(trafficBuffer) = 1
    /\ Len(ipActivity) = 1

(* C27: no session is ever authenticated; every PASS an FTP client sends   *)
(* is answered on its transport with the login-incorrect reply, and every  *)
(* SSH message that holds "password" or "login" is answered with the       *)
(* denial.                                                                 *)
DecoyNeverAuthenticates ==
    [][ /\ \A id \in DOMAIN connections' : ~connections'[id].authenticated
        /\ \A k \in FtpTransports(sockets) :
              (sockets'[k].sent # sockets[k].sent
               /\ sockets'[k].sent[Len(sockets'[k].sent)] = PassLine)
              => replies' = Write(k, <<"530 Login incorrect.\r\n">>)
        /\ (lastOp' = "sshData" /\ lastTraffic' # <<>>
            /\ (includes(lastTraffic'[1].payload, "password")
                \/ includes(lastTraffic'[1].payload, "login")))
              => \E i \in 1..Len(replies') :
                    replies'[i].text = "Permission denied (publickey,password).\r\n"
      ]_vars

(* C28: after a slow cycle every Activity Record holds only entries        *)
(* younger than 5 minutes, and the cycle has emitted, for each source, one *)
(* behavioral_high_volume Incident if more than 50 entries remain and none *)
(* otherwise, one behavioral_port_scanning Incident if they name more than *)
(* 10 distinct ports and none otherwise, all of severity medium, and       *)
(* nothing else.                                                           *)
RemainingPorts(k) ==
    {ipActivity[k].activities[i].port : i \in 1..Len(ipActivity[k].activities)}

SlowCycleThresholds ==
    lastOp = "analyzeBehaviorPatterns" =>
        /\ \A k \in 1..Len(ipActivity) :
               /\ \A i \in 1..Len(ipActivity[k].activities) :
                      now - ipActivity[k].activities[i].timestamp < 300000
               /\ Count(emitted, "behavioral_high_volume", ipActivity[k].ip)
                     = (IF Len(ipActivity[k].activities) > 50 THEN 1 ELSE 0)
               /\ Count(emitted, "behavioral_port_scanning", ipActivity[k].ip)
                     = (IF Cardinality(RemainingPorts(k)) > 10 THEN 1 ELSE 0)
        /\ \A i \in 1..Len(emitted) :
               /\ emitted[i].severity = "medium"
               /\ emitted[i].type \in {"behavioral_high_volume", "behavioral_port_scanning"}
               /\ \E k \in 1..Len(ipActivity) : ipActivity[k].ip = emitted[i].source

(* 51 activities to 11 ports: both Incidents *)
BothAnomaliesReported ==
    /\ lastOp = "analyzeBehaviorPatterns"
    /\ Len(ipActivity[1].activities) = 51
    /\ Cardinality(RemainingPorts(1)) = 11
    /\ Len(emitted) = 2

(* C29: a fast cycle emits a data_exfiltration Incident for a source if    *)
(* and only if the lengths of the payloads longer than 500 that the source *)
(* has in the window add up to more than 50 000; a payload of 500          *)
(* characters or fewer adds nothing.                                       *)
BulkBytes(src) ==
    SumSeq([k \in 1..Len(trafficBuffer) |->
               IF trafficBuffer[k].src_ip = src /\ Len(trafficBuffer[k].payload) > 500
               THEN Len(trafficBuffer[k].payload) ELSE 0])

ExfiltrationIffOverThreshold ==
    lastOp = "analyzeTrafficBuffer" =>
        /\ \A k \in 1..Len(trafficBuffer) : now - trafficBuffer[k].timestamp < 300000
        /\ \A src \in PublicSources \cup PrivateSources :
               Count(emitted, "data_exfiltration", src)
                 = (IF BulkBytes(src) > 50000 THEN 1 ELSE 0)

(* 81 payloads of 625 characters and one of 500: reported *)
ExfiltrationReported ==
    /\ lastOp = "analyzeTrafficBuffer"
    /\ BulkBytes(Scanner) = 50625
    /\ \E k \in 1..Len(trafficBuffer) :
          trafficBuffer[k].src_ip = Scanner /\ Len(trafficBuffer[k].payload) = 500
    /\ Count(emitted, "data_exfiltration", Scanner) = 1

(* C30: a fast cycle first removes from the buffer every Observation aged  *)
(* 300 s or more and keeps the others, and it reports each source by the   *)
(* distinct ports, the auth-keyword Observations, the bytes and the number *)
(* of that source's remaining Observations only.                           *)
Observations(source) ==
    Cardinality({k \in 1..Len(trafficBuffer) : trafficBuffer[k].src_ip = source})

RemainingCounted ==
    lastOp = "analyzeTrafficBuffer" =>
        \A src \in PublicSources :
            /\ Count(emitted, "port_scanning", src)
                  = (IF DistinctPorts(src) > 15 THEN 1 ELSE 0)
            /\ Count(emitted, "brute_force", src)
                  = (IF AuthObservations(src) > 10 THEN 1 ELSE 0)
            /\ Count(emitted, "data_exfiltration", src)
                  = (IF BulkBytes(src) > 50000 THEN 1 ELSE 0)
            /\ Count(emitted, "suspicious_volume", src)
                  = (IF Observations(src) > 100 THEN 1 ELSE 0)

OnlyWindowCounts ==
    /\ [][lastOp' = "analyzeTrafficBuffer" =>
            trafficBuffer' = SelectSeq(trafficBuffer,
                                       LAMBDA item : now - item.timestamp < 300000)]_vars
    /\ []RemainingCounted

(* the burst has aged out: the two Observations that came after it, on     *)
(* ports 15 and 16, remain and nothing is reported                         *)
AgedBurstForgotten ==
    /\ lastOp = "analyzeTrafficBuffer"
    /\ now = 300000
    /\ Len(trafficBuffer) = 2
    /\ DistinctPorts(Scanner) = 2
    /\ \A k \in 1..Len(trafficBuffer) : trafficBuffer[k].timestamp = 300000
    /\ emitted = <<>>

(* C31: an Observation from a source on the blacklist of                   *)
(* loadThreatSignatures makes processTrafficData emit one                  *)
(* threat_malicious_ip Incident of severity high for that source, whatever *)
(* its payload.                                                            *)
BlacklistedSourceReported ==
    (lastOp = "processTrafficData" /\ lastTraffic[1].src_ip \in MaliciousIPs) =>
        \E i \in 1..Len(emitted) :
            /\ emitted[i].type = "threat_malicious_ip"
            /\ emitted[i].severity = "high"
            /\ emitted[i].source = lastTraffic[1].src_ip

(* C32: the page serveHTTPContent writes is chosen by the URL of the        *)
(* request alone, by the first of: contains admin or login, the login      *)
(* page; contains api, the 401 JSON; contains robots.txt, the fixed text;  *)
(* contains .php, the fatal-error page; otherwise the corporate site.      *)
(* Requests served before, on this or another connection, do not matter.   *)
PageFor(url) ==
    IF includesOf(url, "admin") \/ includesOf(url, "login") THEN "login page"
    ELSE IF includesOf(url, "api") THEN "401 json"
    ELSE IF includesOf(url, "robots.txt") THEN "robots.txt"
    ELSE IF includesOf(url, ".php") THEN "php error"
    ELSE "corporate site"

ReplyByUrlOnly ==
    [][lastOp' = "httpEnd" =>
        \E k \in 1..Len(sockets) :
            /\ sockets[k].state = "open" /\ sockets'[k].state = "responded"
            /\ replies' = Write(k, <<PageFor(sockets[k].url)>>)]_vars

(* /api/login is answered with the login page after /api/robots.txt was    *)
(* answered on another connection                                          *)
LoginPageAfterApi ==
    /\ lastOp = "httpEnd"
    /\ Len(sockets) = 2
    /\ sockets[1].url = "/api/robots.txt" /\ sockets[1].state = "responded"
    /\ sockets[2].url = "/api/login"
    /\ replies = Write(2, <<"login page">>)

(* C33: the state of the entry a Telnet transport finds under its id is    *)
(* login or password; a new session starts in login; an input in login is  *)
(* stored as the username and moves to password; an input in password is   *)
(* answered "Login incorrect", clears the username and moves to login.     *)
TelnetTransports == {k \in 1..Len(sockets) : sockets[k].service = "telnet"}

TelnetTwoStates ==
    /\ [](\A k \in TelnetTransports :
             (sockets[k].state = "open" /\ Has(sockets[k].connId))
             => connections[sockets[k].connId].state \in {"login", "password"})
    /\ [][\A k \in TelnetTransports \cup {Len(sockets) + 1} :
             /\ (k = Len(sockets) + 1 /\ Len(sockets') = k /\ sockets'[k].service = "telnet")
                   => connections'[sockets'[k].connId].state = "login"
             /\ (k <= Len(sockets) /\ TelnetData(k, TelnetLine) /\ Has(sockets[k].connId))
                   => LET before == connections[sockets[k].connId]
                          after == connections'[sockets[k].connId]
                      IN  /\ before.state = "login"
                                => (after.state = "password" /\ after.username = SqlPayload)
                          /\ before.state = "password"
                                => /\ after.state = "login" /\ after.username = ""
                                   /\ replies'[1].text = "\r\nLogin incorrect\r\n"]_vars

(* C34: the protocol timer closes a session only after the session has     *)
(* been idle for its timeout: it does not destroy the transport of a       *)
(* session whose input has just been answered.                             *)
JustAnswered(k) ==
    /\ lastOp \in {"sshData", "telnetData", "ftpData"}
    /\ replies # <<>>
    /\ \A i \in 1..Len(replies) : replies[i].socket = k

TimeoutFromLastActivity ==
    [][lastOp' = "protocolTimer" =>
        \A k \in 1..Len(sockets) :
            (sockets[k].state = "open" /\ sockets'[k].state = "destroyed")
            => ~JustAnswered(k)]_vars

(* C35: no Activity Record ever holds more than 100 entries: a             *)
(* recordIPActivity call changes at most the record of its source, a       *)
(* record below 100 entries gains the new entry at its end, a record of    *)
(* 100 entries is replaced by the newest 50 of the 101 in arrival order,   *)
(* and every other source's record is unchanged.                           *)
RecordGrown(old, new) ==
    /\ new[Len(new)].timestamp = now
    /\ IF Len(old) = ActivityCap
       THEN /\ Len(new) = ActivityKeep
            /\ \A i \in 1..(ActivityKeep - 1) : new[i] = old[ActivityCap - ActivityKeep + 1 + i]
       ELSE /\ Len(new) = Len(old) + 1
            /\ \A i \in 1..Len(old) : new[i] = old[i]

ActivityRecordCapped ==
    /\ [](\A k \in 1..Len(ipActivity) : Len(ipActivity[k].activities) <= ActivityCap)
    /\ [][lastOp' = "recordIPActivity" =>
            /\ Len(ipActivity') = Len(ipActivity)
            /\ \A k \in 1..Len(ipActivity) : ipActivity'[k].ip = ipActivity[k].ip
            /\ \/ ipActivity' = ipActivity
               \/ \E k \in 1..Len(ipActivity) :
                      /\ RecordGrown(ipActivity[k].activities, ipActivity'[k].activities)
                      /\ \A j \in 1..Len(ipActivity) :
                             j # k => ipActivity'[j] = ipActivity[j]]_vars

RecordCutToNewest ==
    /\ lastOp = "recordIPActivity"
    /\ Len(ipActivity[1].activities) = ActivityKeep
    /\ ipActivity[1].activities[1].port = ActivityCap - ActivityKeep + 2
    /\ ipActivity[1].activities[ActivityKeep].port \in RecordPorts
    /\ Len(ipActivity[2].activities) = 3

(* C36: an Observation with a non-empty payload from a source that is not  *)
(* filtered is never refused: after the call it is the last entry of the   *)
(* buffer, the entries before it are the previous buffer, or its newest    *)
(* 499 entries in order when the buffer was full, and the signature pass   *)
(* has run on it.                                                          *)
Admitted(data) == data.payload # "" /\ ~isLocalhostStrict(SourceOf(data))

NewObservationNeverRefused ==
    [][(lastOp' = "processTrafficData" /\ Admitted(lastTraffic'[1])) =>
        /\ trafficBuffer' # <<>>
        /\ trafficBuffer'[Len(trafficBuffer')].payload = lastTraffic'[1].payload
        /\ trafficBuffer'[Len(trafficBuffer')].src_ip = lastTraffic'[1].src_ip
        /\ trafficBuffer'[Len(trafficBuffer')].timestamp = now
        /\ IF Len(trafficBuffer) < BufferCap
           THEN /\ Len(trafficBuffer') = Len(trafficBuffer) + 1
                /\ \A i \in 1..Len(trafficBuffer) : trafficBuffer'[i] = trafficBuffer[i]
           ELSE /\ Len(trafficBuffer') = BufferKeep
                /\ \A i \in 1..(BufferKeep - 1) :
                       trafficBuffer'[i] = trafficBuffer[BufferCap - BufferKeep + 1 + i]
        /\ lastTraffic'[1].payload = SqlPayload =>
               /\ emitted' # <<>>
               /\ \A i \in 1..Len(emitted') : emitted'[i].source = lastTraffic'[1].src_ip
        /\ lastTraffic'[1].payload = Hello => emitted' = <<>>]_vars

FloodKeepsNewest ==
    /\ lastOp = "processTrafficData"
    /\ Len(trafficBuffer) = BufferKeep
    /\ trafficBuffer[BufferKeep].payload = SqlPayload
    /\ trafficBuffer[BufferKeep - 1].payload = Hello
    /\ emitted # <<>>

(* C37: for one Observation the engine emits at most one Incident of each  *)
(* type: one per detection rule and one per threat category (blacklisted   *)
(* source, attack substring, suspicious extension); the threat Incidents   *)
(* have severity high, and the total is at most the number of rules plus   *)
(* three.                                                                  *)
ThreatTypes == {"threat_malicious_ip", "threat_attack_pattern", "threat_suspicious_file"}

OneIncidentPerCategory ==
    lastOp = "processTrafficData" =>
        /\ \A i, j \in 1..Len(emitted) : emitted[i].type = emitted[j].type => i = j
        /\ \A i \in 1..Len(emitted) :
               /\ emitted[i].type \in RuleNames \cup ThreatTypes
               /\ emitted[i].type \in ThreatTypes => emitted[i].severity = "high"
        /\ Cardinality({i \in 1..Len(emitted) : emitted[i].type \in ThreatTypes}) <= 3
        /\ Len(emitted) <= Len(DetectionRules) + 3

TwoCategoriesOnce ==
    /\ lastOp = "processTrafficData"
    /\ lastTraffic[1].payload = ThreatPayload
    /\ Len(emitted) = 2
    /\ {emitted[i].type : i \in 1..2} = {"threat_attack_pattern", "threat_suspicious_file"}

(* C38: while the engine is stopped (stop() has completed and start() has  *)
(* not been called since) no aggregation cycle, fast or slow, runs and no  *)
(* Incident is emitted.                                                    *)
QuietWhileStopped ==
    [][(~engine.isActive /\ lastOp' # "detectorStart") =>
        /\ lastOp' \notin {"analyzeTrafficBuffer", "analyzeBehaviorPatterns"}
        /\ emitted' = <<>>]_vars

(* C39: getDetectionStats().totalAttacks, the length of attackPatterns,    *)
(* is the number of attackDetected events emitted so far (each of which    *)
(* the daemon has pushed on its attacks list).                             *)
getDetectionStats ==
    [isActive |-> engine.isActive, totalAttacks |-> Len(attackPatterns),
     ipActivity |-> Len(ipActivity), trafficBuffer |-> Len(trafficBuffer)]

IncidentsFrom(ip, incidents) ==
    Cardinality({i \in 1..Len(incidents) : incidents[i].source = ip})

TargetAttacksCounted ==
    [][emitted' # <<>> =>
        /\ Len(targets') = Len(targets)
        /\ \A k \in 1..Len(targets) :
               IF IncidentsFrom(targets[k].ip, emitted') > 0
               THEN /\ targets'[k].attacks =
                           targets[k].attacks + IncidentsFrom(targets[k].ip, emitted')
                    /\ targets'[k].lastSeen = now
               ELSE targets'[k] = targets[k]]_vars

====
